---- MODULE Spec2Model ----
(***************************************************************************)
(* A model of go-json: the string escaper, the streaming builders, the     *)
(* ordered Object/Array value model and the recursive-descent parser.      *)
(* Text is a sequence of runes (code points), as strings.Reader.ReadRune   *)
(* and `for _, char := range s` deliver them.                              *)
(***************************************************************************)
EXTENDS Integers, Sequences, FiniteSets, TLC

VARIABLES
    obj,        \* the ObjectStruct a caller mutates through Set*
    firstSet,   \* history: the keys in the order each was first set
    lastOp,     \* history: the key of the last Set* call and what it replaced
    src,        \* the string handed to encodeString
    policy,     \* the StringCharacterEscapingBehaviorInterface in use
    encoded,    \* what encodeString returned (<<>> before the call)
    gen,        \* the pieces the parser input is assembled from
    input,      \* the text handed to ParseObject/ParseArray/parseString
    result,     \* what the parser returned (st = "none" before the call)
    arr,        \* the ArrayStruct a caller mutates through Add*/Set*
    arrOp,      \* history: the last Add*/Set* call on arr and whether it panicked
    arrStored,  \* history: per index of arr, the kind and value of the last store
    stored,     \* history: per key of obj, the kind and value of the last store
    heap,       \* the Go heap: the map sets and key arrays structs point to
    handles,    \* the ObjectStruct values the caller's variables hold
    snapshot    \* what the container reported when a value was last shared

vars == <<obj, firstSet, lastOp, src, policy, encoded, gen, input, result,
          arr, arrOp, arrStored, stored, heap, handles, snapshot>>

arrVars == <<arr, arrOp, arrStored>>

aliasVars == <<heap, handles, snapshot>>

(***************************************************************************)
(* Runes that the source names as character literals.                      *)
(***************************************************************************)
Rune == [quote |-> 34, backslash |-> 92, slash |-> 47, bs |-> 8, ff |-> 12,
         lf |-> 10, cr |-> 13, tab |-> 9, space |-> 32, lbrace |-> 123,
         rbrace |-> 125, lbracket |-> 91, rbracket |-> 93, colon |-> 58,
         comma |-> 44, minus |-> 45, plus |-> 43, dot |-> 46, zero |-> 48,
         one |-> 49, nine |-> 57, upA |-> 65, upE |-> 69, upF |-> 70,
         upZ |-> 90, a |-> 97, b |-> 98, e |-> 101, f |-> 102, n |-> 110,
         r |-> 114, t |-> 116, u |-> 117, z |-> 122,
         replacement |-> 65533, maxRune |-> 1114111]

\* "true", "false", "null" as rune sequences
TrueText == <<116, 114, 117, 101>>
FalseText == <<102, 97, 108, 115, 101>>
NullText == <<110, 117, 108, 108>>

RECURSIVE Flatten(_)
Flatten(ss) == IF ss = <<>> THEN <<>> ELSE Head(ss) \o Flatten(Tail(ss))

(***************************************************************************)
(* String escaper                                                          *)
(***************************************************************************)
UseCharacter(behavior, r) == behavior.useCharacter

UseShorthandEscapeSequence(behavior, r) == behavior.useShorthand

MinimalStringCharacterEscapingBehavior ==
    [useCharacter |-> TRUE, useShorthand |-> TRUE]

shorthandStringCharacterEscapeSequences ==
    [c \in {34, 92, 47, 8, 12, 10, 13, 9} |->
        CASE c = 34 -> <<92, 34>>
          [] c = 92 -> <<92, 92>>
          [] c = 47 -> <<92, 47>>
          [] c = 8  -> <<92, 98>>
          [] c = 12 -> <<92, 102>>
          [] c = 10 -> <<92, 110>>
          [] c = 13 -> <<92, 114>>
          [] c = 9  -> <<92, 116>>]

hexTable == <<48, 49, 50, 51, 52, 53, 54, 55, 56, 57, 97, 98, 99, 100, 101, 102>>

upperHexTable == <<48, 49, 50, 51, 52, 53, 54, 55, 56, 57, 65, 66, 67, 68, 69, 70>>

toStringHexEscapeSequenceUpper(r) ==
    <<92, 117,
      upperHexTable[((r \div 4096) % 16) + 1],
      upperHexTable[((r \div 256) % 16) + 1],
      upperHexTable[((r \div 16) % 16) + 1],
      upperHexTable[(r % 16) + 1]>>

toStringHexEscapeSequence(r) ==
    <<92, 117,
      hexTable[((r \div 4096) % 16) + 1],
      hexTable[((r \div 256) % 16) + 1],
      hexTable[((r \div 16) % 16) + 1],
      hexTable[(r % 16) + 1]>>

\* unicode/utf16: surrogate range [0xd800, 0xe000), supplementary from 0x10000
IsSurrogate(r) == r >= 55296 /\ r < 57344

RuneLen(r) ==
    IF (r >= 0 /\ r < 55296) \/ (r >= 57344 /\ r < 65536) THEN 1
    ELSE IF r >= 65536 /\ r <= Rune.maxRune THEN 2
    ELSE -1

\* a plausible slip: the 0x10000 offset is not taken off before the split
EncodeRuneNoOffset(r) ==
    IF r < 65536 \/ r > Rune.maxRune
    THEN <<Rune.replacement, Rune.replacement>>
    ELSE <<55296 + ((r \div 1024) % 1024), 56320 + (r % 1024)>>

EncodeRune(r) ==
    IF r < 65536 \/ r > Rune.maxRune
    THEN <<Rune.replacement, Rune.replacement>>
    ELSE <<55296 + (((r - 65536) \div 1024) % 1024), 56320 + ((r - 65536) % 1024)>>

DecodeRune(r1, r2) ==
    IF r1 >= 55296 /\ r1 < 56320 /\ r2 >= 56320 /\ r2 < 57344
    THEN ((r1 - 55296) * 1024) + (r2 - 56320) + 65536
    ELSE Rune.replacement

\* one iteration of the loop of encodeString: what is written for char
encodeRune(char, behavior) ==
    IF char >= 0 /\ char <= 31 /\ char # Rune.quote /\ char # Rune.backslash
       /\ UseCharacter(behavior, char)
    THEN <<char>>
    ELSE IF char \in DOMAIN shorthandStringCharacterEscapeSequences
            /\ UseShorthandEscapeSequence(behavior, char)
    THEN shorthandStringCharacterEscapeSequences[char]
    ELSE IF RuneLen(char) > 1
    THEN toStringHexEscapeSequence(EncodeRune(char)[1])
         \o toStringHexEscapeSequence(EncodeRune(char)[2])
    ELSE toStringHexEscapeSequence(char)

encodeString(s, behavior) ==
    <<Rune.quote>>
    \o Flatten([i \in 1..Len(s) |-> encodeRune(s[i], behavior)])
    \o <<Rune.quote>>

(***************************************************************************)
(* Go maps and faults.  A map is a function; the zero value of a struct    *)
(* has nil maps (maps = "nil"): reading them finds nothing, writing them   *)
(* panics.  A panic is the record Panic(msg).                              *)
(***************************************************************************)
EmptyMap == [k \in {} |-> 0]

MapPut(m, k, v) == [x \in (DOMAIN m) \cup {k} |-> IF x = k THEN v ELSE m[x]]

MapDelete(m, k) == [x \in (DOMAIN m) \ {k} |-> m[x]]

Panic(msg) == [panic |-> msg]

IsPanic(x) == "panic" \in DOMAIN x

\* strconv.Itoa / strconv.FormatInt(v, 10)
RECURSIVE FormatDigits(_)
FormatDigits(v) ==
    IF v < 10 THEN <<48 + v>> ELSE Append(FormatDigits(v \div 10), 48 + (v % 10))

\* the digits of -v for v < 0, taken from v itself so that the least int32
\* has them too
RECURSIVE FormatNegDigits(_)
FormatNegDigits(v) ==
    LET d == (10 - (v % 10)) % 10
        rest == (v + d) \div 10
    IN IF rest = 0 THEN <<48 + d>> ELSE Append(FormatNegDigits(rest), 48 + d)

FormatInt(v) == IF v < 0 THEN <<Rune.minus>> \o FormatNegDigits(v) ELSE FormatDigits(v)

\* the value of a run of at most five decimal digits
RECURSIVE DigitsValue(_)
DigitsValue(digits) ==
    IF digits = <<>> THEN 0
    ELSE 10 * DigitsValue(SubSeq(digits, 1, Len(digits) - 1)) + (digits[Len(digits)] - 48)

RECURSIVE DropZeros(_)
DropZeros(digits) ==
    IF Len(digits) > 1 /\ Head(digits) = Rune.zero THEN DropZeros(Tail(digits)) ELSE digits

\* strconv.ParseUint(s, 10, 32): digits only, at least one, below 2^32.  The
\* result is hi * 10^5 + lo, kept in two parts because it can pass 2^31 - 1
ParseUint32(s) ==
    IF s = <<>> \/ \E i \in 1..Len(s) : s[i] \notin Rune.zero..Rune.nine
    THEN [st |-> "syntax", hi |-> 0, lo |-> 0]
    ELSE LET digits == DropZeros(s)
             n == Len(digits)
             hi == IF n > 5 /\ n <= 10 THEN DigitsValue(SubSeq(digits, 1, n - 5)) ELSE 0
             lo == IF n > 5 THEN DigitsValue(SubSeq(digits, n - 4, n))
                   ELSE DigitsValue(digits)
         IN IF n > 10 \/ hi > 42949 \/ (hi = 42949 /\ lo > 67295)
            THEN [st |-> "range", hi |-> 0, lo |-> 0]
            ELSE [st |-> "ok", hi |-> hi, lo |-> lo]

\* int32(parsed) for parsed = hi * 10^5 + lo below 2^32: values from 2^31 on
\* wrap to parsed - 2^32
Int32OfUint32(hi, lo) ==
    IF hi < 21474 \/ (hi = 21474 /\ lo <= 83647) THEN hi * 100000 + lo
    ELSE (hi - 42948) * 100000 + (lo - 167296)

\* strconv.ParseInt(s, 10, 32): an optional sign, then digits; the magnitude
\* is at most 2^31 - 1, or 2^31 after '-'
ParseInt32(s) ==
    LET neg == s # <<>> /\ s[1] = Rune.minus
        rest == IF s # <<>> /\ s[1] \in {Rune.minus, Rune.plus} THEN Tail(s) ELSE s
        un == ParseUint32(rest)
    IN IF un.st = "syntax" THEN [st |-> "syntax", value |-> 0]
       ELSE IF un.st = "range" THEN [st |-> "range", value |-> 0]
       ELSE IF ~neg /\ (un.hi > 21474 \/ (un.hi = 21474 /\ un.lo > 83647))
       THEN [st |-> "range", value |-> 0]
       ELSE IF neg /\ (un.hi > 21474 \/ (un.hi = 21474 /\ un.lo > 83648))
       THEN [st |-> "range", value |-> 0]
       ELSE [st |-> "ok",
             value |-> IF neg THEN (0 - un.hi * 100000) - un.lo
                       ELSE un.hi * 100000 + un.lo]

(***************************************************************************)
(* Builders (build.go)                                                     *)
(***************************************************************************)
NewObjectBuilder(behavior) ==
    [b |-> <<>>, stringCharacterEscapingBehavior |-> behavior, memberCount |-> 0]

\* a plausible slip: a member whose encoded name is already in the buffer is
\* not written again
ObjectBuilderAddJSONDedup(builder, name, value) ==
    LET b1 == IF Len(builder.b) = 0 THEN <<Rune.lbrace>> ELSE builder.b
        b2 == IF builder.memberCount > 0 THEN Append(b1, Rune.comma) ELSE b1
        encodedName == encodeString(name, builder.stringCharacterEscapingBehavior)
        pattern == encodedName \o <<Rune.colon>>
    IN IF \E i \in 1..Len(builder.b) :
              /\ i + Len(pattern) - 1 <= Len(builder.b)
              /\ SubSeq(builder.b, i, i + Len(pattern) - 1) = pattern
       THEN builder
       ELSE [builder EXCEPT !.b = b2 \o encodedName \o <<Rune.colon>> \o value,
                            !.memberCount = builder.memberCount + 1]

ObjectBuilderAddJSON(builder, name, value) ==
    LET b1 == IF Len(builder.b) = 0 THEN <<Rune.lbrace>> ELSE builder.b
        b2 == IF builder.memberCount > 0 THEN Append(b1, Rune.comma) ELSE b1
        encodedName == encodeString(name, builder.stringCharacterEscapingBehavior)
    IN [builder EXCEPT !.b = b2 \o encodedName \o <<Rune.colon>> \o value,
                       !.memberCount = builder.memberCount + 1]

ObjectBuilderAddString(builder, name, value) ==
    ObjectBuilderAddJSON(builder, name,
        encodeString(value, builder.stringCharacterEscapingBehavior))

ObjectBuilderAddBool(builder, name, value) ==
    IF value THEN ObjectBuilderAddJSON(builder, name, TrueText)
    ELSE ObjectBuilderAddJSON(builder, name, FalseText)

ObjectBuilderAddNull(builder, name) == ObjectBuilderAddJSON(builder, name, NullText)

ObjectBuilderAddInt(builder, name, value) ==
    ObjectBuilderAddJSON(builder, name, FormatInt(value))

ObjectBuilderAddInt64(builder, name, value) ==
    ObjectBuilderAddJSON(builder, name, FormatInt(value))

ObjectBuilderAddInt32(builder, name, value) == ObjectBuilderAddInt64(builder, name, value)

ObjectBuilderDone(builder) ==
    IF Len(builder.b) = 0 THEN <<Rune.lbrace, Rune.rbrace>>
    ELSE Append(builder.b, Rune.rbrace)

NewArrayBuilder(behavior) ==
    [b |-> <<>>, stringCharacterEscapingBehavior |-> behavior, elementCount |-> 0]

\* a plausible slip: the comma is written from the third element on
ArrayBuilderAddJSONLateComma(builder, value) ==
    LET b1 == IF Len(builder.b) = 0 THEN <<Rune.lbracket>> ELSE builder.b
        b2 == IF builder.elementCount > 1 THEN Append(b1, Rune.comma) ELSE b1
    IN [builder EXCEPT !.b = b2 \o value,
                       !.elementCount = builder.elementCount + 1]

ArrayBuilderAddJSON(builder, value) ==
    LET b1 == IF Len(builder.b) = 0 THEN <<Rune.lbracket>> ELSE builder.b
        b2 == IF builder.elementCount > 0 THEN Append(b1, Rune.comma) ELSE b1
    IN [builder EXCEPT !.b = b2 \o value,
                       !.elementCount = builder.elementCount + 1]

ArrayBuilderAddString(builder, value) ==
    ArrayBuilderAddJSON(builder,
        encodeString(value, builder.stringCharacterEscapingBehavior))

ArrayBuilderAddBool(builder, value) ==
    IF value THEN ArrayBuilderAddJSON(builder, TrueText)
    ELSE ArrayBuilderAddJSON(builder, FalseText)

ArrayBuilderAddNull(builder) == ArrayBuilderAddJSON(builder, NullText)

ArrayBuilderAddInt(builder, value) == ArrayBuilderAddJSON(builder, FormatInt(value))

ArrayBuilderAddInt64(builder, value) == ArrayBuilderAddJSON(builder, FormatInt(value))

\* AddInt32(key string, value int32): key is not used
ArrayBuilderAddInt32(builder, key, value) == ArrayBuilderAddJSON(builder, FormatInt(value))

\* a plausible slip: Done forgets the builder that nothing was added to
ArrayBuilderDoneNoEmptyCase(builder) == Append(builder.b, Rune.rbracket)

ArrayBuilderDone(builder) ==
    IF Len(builder.b) = 0 THEN <<Rune.lbracket, Rune.rbracket>>
    ELSE Append(builder.b, Rune.rbracket)

(***************************************************************************)
(* ArrayStruct (array.go)                                                  *)
(***************************************************************************)
NewArray ==
    [maps |-> "made", strings |-> EmptyMap, numbers |-> EmptyMap,
     bools |-> EmptyMap, nulls |-> EmptyMap, objects |-> EmptyMap,
     arrays |-> EmptyMap, length |-> 0]

\* ArrayStruct{}: every map nil
ArrayZero == [NewArray EXCEPT !.maps = "nil"]

ArrayLength(array) == array.length

\* a plausible slip: one of the six deletes is forgotten
removeElementKeepsNulls(array, index) ==
    [array EXCEPT !.strings = MapDelete(@, index), !.numbers = MapDelete(@, index),
                  !.bools = MapDelete(@, index),
                  !.objects = MapDelete(@, index), !.arrays = MapDelete(@, index)]

removeElement(array, index) ==
    [array EXCEPT !.strings = MapDelete(@, index), !.numbers = MapDelete(@, index),
                  !.bools = MapDelete(@, index), !.nulls = MapDelete(@, index),
                  !.objects = MapDelete(@, index), !.arrays = MapDelete(@, index)]

\* a plausible slip: the bounds check lets index = length through
arraySetOffByOne(array, kind, index, value) ==
    IF index > array.length THEN Panic("out of bounds")
    ELSE IF array.maps = "nil" THEN Panic("assignment to entry in nil map")
    ELSE [removeElement(array, index) EXCEPT ![kind] = MapPut(@, index, value)]

\* the shared body of the Array Set* methods: bounds check, removeElement, store
arraySet(array, kind, index, value) ==
    IF index >= array.length THEN Panic("out of bounds")
    ELSE IF array.maps = "nil" THEN Panic("assignment to entry in nil map")
    ELSE [removeElement(array, index) EXCEPT ![kind] = MapPut(@, index, value)]

\* the shared body of the Array Add* methods: store at length, length++
arrayAdd(array, kind, value) ==
    IF array.maps = "nil" THEN Panic("assignment to entry in nil map")
    ELSE [array EXCEPT ![kind] = MapPut(@, array.length, value),
                       !.length = array.length + 1]

ArraySetString(array, index, value) == arraySet(array, "strings", index, value)
ArrayAddString(array, value) == arrayAdd(array, "strings", value)
ArraySetNumber(array, index, value) == arraySet(array, "numbers", index, value)
ArrayAddNumber(array, value) == arrayAdd(array, "numbers", value)
ArraySetInt(array, index, value) == ArraySetNumber(array, index, FormatInt(value))
ArrayAddInt(array, value) == ArrayAddNumber(array, FormatInt(value))
ArraySetBool(array, index, value) == arraySet(array, "bools", index, value)
ArrayAddBool(array, value) == arrayAdd(array, "bools", value)
ArraySetJSONObject(array, index, value) == arraySet(array, "objects", index, value)
ArrayAddJSONObject(array, value) == arrayAdd(array, "objects", value)
ArraySetJSONArray(array, index, value) == arraySet(array, "arrays", index, value)
ArrayAddJSONArray(array, value) == arrayAdd(array, "arrays", value)
ArraySetNull(array, index) == arraySet(array, "nulls", index, TRUE)
ArrayAddNull(array) == arrayAdd(array, "nulls", TRUE)

\* the typed getters: (value, error); error "no matching member"
mapGet(m, k, zero) ==
    IF k \in DOMAIN m THEN [value |-> m[k], err |-> ""]
    ELSE [value |-> zero, err |-> "no matching member"]

ArrayGetString(array, index) == mapGet(array.strings, index, <<>>)
ArrayGetNumber(array, index) == mapGet(array.numbers, index, <<>>)
ArrayGetBool(array, index) == mapGet(array.bools, index, FALSE)
ArrayGetJSONArray(array, index) == mapGet(array.arrays, index, ArrayZero)

\* IsNull: (bool, error); ExistsAndIsNull: bool
ArrayIsNull(array, index) ==
    IF index \in DOMAIN array.nulls THEN [value |-> TRUE, err |-> ""]
    ELSE [value |-> FALSE, err |-> "no matching member"]

ArrayExistsAndIsNull(array, index) == index \in DOMAIN array.nulls

(***************************************************************************)
(* ObjectStruct                                                            *)
(***************************************************************************)
NewObject ==
    [maps |-> "made", strings |-> EmptyMap, numbers |-> EmptyMap,
     bools |-> EmptyMap, nulls |-> EmptyMap, objects |-> EmptyMap,
     arrays |-> EmptyMap, keys |-> <<>>]

\* ObjectStruct{}: every map nil
ObjectZero == [NewObject EXCEPT !.maps = "nil"]

Has(object, key) ==
    \/ key \in DOMAIN object.strings
    \/ key \in DOMAIN object.numbers
    \/ key \in DOMAIN object.bools
    \/ key \in DOMAIN object.nulls
    \/ key \in DOMAIN object.objects
    \/ key \in DOMAIN object.arrays

\* a plausible slip: the key is appended whether or not it is already there
addKeyAlwaysAppend(object, key) ==
    [object EXCEPT !.strings = MapDelete(@, key), !.numbers = MapDelete(@, key),
                   !.nulls = MapDelete(@, key), !.bools = MapDelete(@, key),
                   !.objects = MapDelete(@, key), !.arrays = MapDelete(@, key),
                   !.keys = Append(@, key)]

addKey(object, key) ==
    IF key \in DOMAIN object.strings THEN [object EXCEPT !.strings = MapDelete(@, key)]
    ELSE IF key \in DOMAIN object.numbers THEN [object EXCEPT !.numbers = MapDelete(@, key)]
    ELSE IF key \in DOMAIN object.nulls THEN [object EXCEPT !.nulls = MapDelete(@, key)]
    ELSE IF key \in DOMAIN object.bools THEN [object EXCEPT !.bools = MapDelete(@, key)]
    ELSE IF key \in DOMAIN object.objects THEN [object EXCEPT !.objects = MapDelete(@, key)]
    ELSE IF key \in DOMAIN object.arrays THEN [object EXCEPT !.arrays = MapDelete(@, key)]
    ELSE [object EXCEPT !.keys = Append(@, key)]

\* a plausible slip: the store is made without addKey clearing the old kind
objectSetNoAddKey(object, kind, key, value) ==
    IF object.maps = "nil" THEN Panic("assignment to entry in nil map")
    ELSE [object EXCEPT ![kind] = MapPut(@, key, value),
                        !.keys = IF Has(object, key) THEN @ ELSE Append(@, key)]

\* the shared body of the Object Set* methods: addKey, then store
objectSet(object, kind, key, value) ==
    IF object.maps = "nil" THEN Panic("assignment to entry in nil map")
    ELSE [addKey(object, key) EXCEPT ![kind] = MapPut(@, key, value)]

SetString(object, key, value) == objectSet(object, "strings", key, value)
SetNumber(object, key, value) == objectSet(object, "numbers", key, value)
SetInt(object, key, value) == SetNumber(object, key, FormatInt(value))
SetInt32(object, key, value) == SetNumber(object, key, FormatInt(value))
SetInt64(object, key, value) == SetNumber(object, key, FormatInt(value))
SetBool(object, key, value) == objectSet(object, "bools", key, value)
SetJSONObject(object, key, value) == objectSet(object, "objects", key, value)
SetJSONArray(object, key, value) == objectSet(object, "arrays", key, value)
\* a plausible slip: SetNull stores without calling addKey first
SetNullNoAddKey(object, key) ==
    IF object.maps = "nil" THEN Panic("assignment to entry in nil map")
    ELSE [object EXCEPT !.nulls = MapPut(@, key, TRUE)]

SetNull(object, key) == objectSet(object, "nulls", key, TRUE)

GetString(object, key) == mapGet(object.strings, key, <<>>)
GetNumber(object, key) == mapGet(object.numbers, key, <<>>)
GetBool(object, key) == mapGet(object.bools, key, FALSE)
GetJSONObject(object, key) == mapGet(object.objects, key, ObjectZero)
GetJSONArray(object, key) == mapGet(object.arrays, key, ArrayZero)
ArrayGetJSONObject(array, index) == mapGet(array.objects, index, ObjectZero)

IsNull(object, key) ==
    IF key \in DOMAIN object.nulls THEN [value |-> TRUE, err |-> ""]
    ELSE [value |-> FALSE, err |-> "no matching member"]

ExistsAndIsNull(object, key) ==
    IF key \notin DOMAIN object.nulls THEN FALSE ELSE TRUE

GetInt32(object, key) ==
    LET number == GetNumber(object, key)
        parsed == ParseInt32(number.value)
    IN IF number.err # "" THEN [value |-> 0, err |-> "failed to get number"]
       ELSE IF parsed.st # "ok" THEN [value |-> 0, err |-> "failed to parse int32"]
       ELSE [value |-> parsed.value, err |-> ""]

ArraySetInt32(array, index, value) == ArraySetNumber(array, index, FormatInt(value))

ArrayAddInt32(array, value) == ArrayAddNumber(array, FormatInt(value))

ArrayGetInt32(array, key) ==
    LET number == ArrayGetNumber(array, key)
        parsed == ParseInt32(number.value)
    IN IF number.err # "" THEN [value |-> 0, err |-> "failed to get number"]
       ELSE IF parsed.st # "ok" THEN [value |-> 0, err |-> "failed to parse int32"]
       ELSE [value |-> parsed.value, err |-> ""]

(***************************************************************************)
(* The ObjectStruct whose zero value is a ready-to-use empty object: a     *)
(* Set* makes the map it stores into when that map is nil, and lookups in  *)
(* a nil map find nothing.                                                 *)
(***************************************************************************)
ReadyObjectSetNumber(object, key, value) ==
    [addKey(object, key) EXCEPT !.numbers = MapPut(@, key, value)]

ReadyObjectSetInt32(object, key, value) ==
    ReadyObjectSetNumber(object, key, FormatInt(value))

ReadyObjectGetInt32(object, key) ==
    IF key \notin DOMAIN object.numbers THEN [value |-> 0, err |-> "no matching member"]
    ELSE LET parsed == ParseUint32(object.numbers[key])
         IN IF parsed.st # "ok" THEN [value |-> 0, err |-> "no matching member"]
            ELSE [value |-> Int32OfUint32(parsed.hi, parsed.lo), err |-> ""]

(***************************************************************************)
(* ObjectStruct with Go's reference semantics.  An ObjectStruct value is   *)
(* six map references and a slice header; copying the struct (passing it   *)
(* to SetJSONObject, storing it in a map, returning it from GetJSONObject) *)
(* copies the references, not the maps.  The six maps of a value are made  *)
(* together by NewObject and copied together, so they are one heap cell,   *)
(* addressed by its index in the heap; 0 is nil.  The backing array of a   *)
(* keys slice is another heap cell.                                        *)
(***************************************************************************)
NilSlice == [ptr |-> 0, len |-> 0, cap |-> 0]

\* ObjectStruct{}
ZeroHandle == [maps |-> 0, keys |-> NilSlice]

NewMaps ==
    [strings |-> EmptyMap, numbers |-> EmptyMap, bools |-> EmptyMap,
     nulls |-> EmptyMap, objects |-> EmptyMap, arrays |-> EmptyMap]

\* NewObject(): six fresh maps, keys nil
HeapNewObject(h) ==
    [heap |-> Append(h, NewMaps), object |-> [maps |-> Len(h) + 1, keys |-> NilSlice]]

\* the elements a slice header gives access to
SliceElems(h, slice) ==
    IF slice.len = 0 THEN <<>> ELSE SubSeq(h[slice.ptr], 1, slice.len)

\* the capacity append grows a full slice of strings to: 1, 2, 4, 8
GrowCap(cap) == IF cap = 0 THEN 1 ELSE 2 * cap

\* append(slice, x): in place when there is room in the backing array,
\* else into a new backing array the old elements are copied to
HeapAppend(h, slice, x) ==
    IF slice.len < slice.cap
    THEN [heap |-> [h EXCEPT ![slice.ptr][slice.len + 1] = x],
          slice |-> [slice EXCEPT !.len = @ + 1]]
    ELSE [heap |-> Append(h, [i \in 1..GrowCap(slice.cap) |->
                                 IF i <= slice.len THEN h[slice.ptr][i]
                                 ELSE IF i = slice.len + 1 THEN x
                                 ELSE <<>>]),
          slice |-> [ptr |-> Len(h) + 1, len |-> slice.len + 1,
                     cap |-> GrowCap(slice.cap)]]

\* the struct as its methods see it: the maps it points to and its keys
View(h, object) ==
    IF object.maps = 0 THEN [ObjectZero EXCEPT !.keys = SliceElems(h, object.keys)]
    ELSE [maps |-> "made",
          strings |-> h[object.maps].strings, numbers |-> h[object.maps].numbers,
          bools |-> h[object.maps].bools, nulls |-> h[object.maps].nulls,
          objects |-> h[object.maps].objects, arrays |-> h[object.maps].arrays,
          keys |-> SliceElems(h, object.keys)]

\* a Set* method on the struct a variable holds: addKey and the store act on
\* the maps the struct points to; append gives the struct its new keys header
HeapSet(h, object, kind, key, value) ==
    LET view == View(h, object)
        after == objectSet(view, kind, key, value)
        stored1 == [h EXCEPT ![object.maps] =
                      [strings |-> after.strings, numbers |-> after.numbers,
                       bools |-> after.bools, nulls |-> after.nulls,
                       objects |-> after.objects, arrays |-> after.arrays]]
        appended == IF Len(after.keys) > Len(view.keys)
                    THEN HeapAppend(stored1, object.keys, key)
                    ELSE [heap |-> stored1, slice |-> object.keys]
    IN IF IsPanic(after) THEN [heap |-> h, object |-> object, panic |-> after.panic]
       ELSE [heap |-> appended.heap, object |-> [object EXCEPT !.keys = appended.slice]]

\* GetJSONObject: the struct stored in the objects map, copied out
HeapGetJSONObject(h, object, key) == mapGet(View(h, object).objects, key, ZeroHandle)

\* the value a struct denotes: its maps and keys with every nested struct
\* followed through the heap
RECURSIVE Deref(_, _)
Deref(h, object) ==
    LET view == View(h, object)
    IN [view EXCEPT !.objects = [k \in DOMAIN view.objects |-> Deref(h, view.objects[k])]]

(***************************************************************************)
(* Serialization: ObjectStruct.String, ArrayStruct.String                  *)
(***************************************************************************)
RECURSIVE ObjectString(_, _), ArrayString(_, _), objectStringLoop(_, _, _, _),
          arrayStringLoop(_, _, _, _), objectStringIter(_, _, _, _),
          arrayStringIter(_, _, _, _)

\* a plausible slip: the loop ranges over a kind map instead of the key list,
\* and Go visits the keys of a map in an order that differs from run to run
objectStringRangeOverMap(object) ==
    {order \in [1..Len(object.keys) -> {object.keys[i] : i \in 1..Len(object.keys)}] :
        \A i, j \in 1..Len(object.keys) : order[i] = order[j] => i = j}

\* the orders in which `for _, key := range object.keys` can visit the keys:
\* the one order of the slice
objectStringRange(object) == {object.keys}

\* the body of the loop of ObjectStruct.String for one key: the first kind
\* map that holds the key gives the member
objectStringIter(object, behavior, key, builder) ==
    IF key \in DOMAIN object.strings
    THEN ObjectBuilderAddString(builder, key, object.strings[key])
    ELSE IF key \in DOMAIN object.numbers
    THEN ObjectBuilderAddJSON(builder, key, object.numbers[key])
    ELSE IF key \in DOMAIN object.bools
    THEN ObjectBuilderAddBool(builder, key, object.bools[key])
    ELSE IF key \in DOMAIN object.nulls
    THEN ObjectBuilderAddNull(builder, key)
    ELSE IF key \in DOMAIN object.objects
    THEN ObjectBuilderAddJSON(builder, key, ObjectString(object.objects[key], behavior))
    ELSE IF key \in DOMAIN object.arrays
    THEN ObjectBuilderAddJSON(builder, key, ArrayString(object.arrays[key], behavior))
    ELSE builder

\* the loop `for _, key := range object.keys`, from the i-th key on
objectStringLoop(object, behavior, i, builder) ==
    IF i > Len(object.keys) THEN builder
    ELSE objectStringLoop(object, behavior, i + 1,
             objectStringIter(object, behavior, object.keys[i], builder))

ObjectString(object, behavior) ==
    ObjectBuilderDone(objectStringLoop(object, behavior, 1, NewObjectBuilder(behavior)))

\* the indexes `for i := range array.length` visits, in order
arrayStringRange(array) == {[i \in 1..array.length |-> i - 1]}

\* the body of the loop of ArrayStruct.String for one index
arrayStringIter(array, behavior, i, builder) ==
    IF i \in DOMAIN array.strings
    THEN ArrayBuilderAddString(builder, array.strings[i])
    ELSE IF i \in DOMAIN array.numbers
    THEN ArrayBuilderAddJSON(builder, array.numbers[i])
    ELSE IF i \in DOMAIN array.bools
    THEN ArrayBuilderAddBool(builder, array.bools[i])
    ELSE IF i \in DOMAIN array.nulls
    THEN ArrayBuilderAddNull(builder)
    ELSE IF i \in DOMAIN array.objects
    THEN ArrayBuilderAddJSON(builder, ObjectString(array.objects[i], behavior))
    ELSE IF i \in DOMAIN array.arrays
    THEN ArrayBuilderAddJSON(builder, ArrayString(array.arrays[i], behavior))
    ELSE builder

\* the loop `for i := range array.length`, from index i on
arrayStringLoop(array, behavior, i, builder) ==
    IF i >= array.length THEN builder
    ELSE arrayStringLoop(array, behavior, i + 1,
             arrayStringIter(array, behavior, i, builder))

ArrayString(array, behavior) ==
    ArrayBuilderDone(arrayStringLoop(array, behavior, 0, NewArrayBuilder(behavior)))

(***************************************************************************)
(* Parser.  The reader is the pair (s, pos): pos runes have been read,     *)
(* ReadRune returns s[pos + 1] or io.EOF, UnreadRune steps back by one.    *)
(* A parse function returns [st, err, pos, val]: st is "ok", "err" (an     *)
(* error value was returned; err is the innermost message, without the     *)
(* "failed to ...: " prefixes the callers add) or "panic" (the call        *)
(* faulted); val is the zero value unless st = "ok".                       *)
(***************************************************************************)
Ok(pos, val) == [st |-> "ok", err |-> "", pos |-> pos, val |-> val]

Err(msg, zero) == [st |-> "err", err |-> msg, pos |-> 0, val |-> zero]

Fault(msg, zero) == [st |-> "panic", err |-> msg, pos |-> 0, val |-> zero]

\* a loop body that reached its end or a `continue`: the reader is at pos and
\* the loop's locals are val.  Each loop below is its body (..Iter) run until
\* it returns; the singleton set binds the result of one pass once
Again(pos, val) == [st |-> "again", err |-> "", pos |-> pos, val |-> val]

AtEOF(s, pos) == pos >= Len(s)

isIdentifierCharacter(r) ==
    (r >= Rune.upA /\ r <= Rune.upZ) \/ (r >= Rune.a /\ r <= Rune.z)

isDigitCharacter(r) == r >= Rune.zero /\ r <= Rune.nine

\* one pass through the body of the loop of skipWhitespace
skipWhitespaceIter(s, pos) ==
    IF AtEOF(s, pos) THEN Ok(pos, <<>>)
    ELSE LET char == s[pos + 1]
         IN IF char = Rune.replacement THEN Err("invalid encoding", <<>>)
            ELSE IF char \in {Rune.tab, Rune.lf, Rune.space, Rune.cr}
            THEN Again(pos + 1, <<>>)
            ELSE Ok(pos, <<>>)

RECURSIVE skipWhitespace(_, _)
skipWhitespace(s, pos) ==
    CHOOSE r \in {IF it.st = "again" THEN skipWhitespace(s, it.pos) ELSE it :
                  it \in {skipWhitespaceIter(s, pos)}} : TRUE

\* a plausible slip: the loop stops at the first rune that is not whitespace,
\* as skipWhitespace does, instead of failing on it
RECURSIVE parseEndStopsAtOther(_, _)
parseEndStopsAtOther(s, pos) ==
    IF AtEOF(s, pos) THEN Ok(pos, <<>>)
    ELSE LET char == s[pos + 1]
         IN IF char = Rune.replacement THEN Err("invalid encoding", <<>>)
            ELSE IF char \in {Rune.tab, Rune.lf, Rune.space, Rune.cr}
            THEN parseEndStopsAtOther(s, pos + 1)
            ELSE Ok(pos, <<>>)

\* one pass through the body of the loop of parseEnd
parseEndIter(s, pos) ==
    IF AtEOF(s, pos) THEN Ok(pos, <<>>)
    ELSE LET char == s[pos + 1]
         IN IF char = Rune.replacement THEN Err("invalid encoding", <<>>)
            ELSE IF char \in {Rune.tab, Rune.lf, Rune.space, Rune.cr}
            THEN Again(pos + 1, <<>>)
            ELSE Err("unexpected character", <<>>)

RECURSIVE parseEnd(_, _)
parseEnd(s, pos) ==
    CHOOSE r \in {IF it.st = "again" THEN parseEnd(s, it.pos) ELSE it :
                  it \in {parseEndIter(s, pos)}} : TRUE

\* a plausible slip: the lower-case letters a..f are left out
hexValueUpperOnly(char) ==
    IF char >= Rune.zero /\ char <= Rune.nine THEN char - Rune.zero
    ELSE IF char >= Rune.upA /\ char <= Rune.upF THEN char - Rune.upA + 10
    ELSE -1

\* the value of one hex digit, -1 for any other rune
hexValue(char) ==
    IF char >= Rune.zero /\ char <= Rune.nine THEN char - Rune.zero
    ELSE IF char >= Rune.upA /\ char <= Rune.upF THEN char - Rune.upA + 10
    ELSE IF char >= Rune.a /\ char <= Rune.f THEN char - Rune.a + 10
    ELSE -1

\* `for i := range 4`: the four runes after \u, from the i-th on
RECURSIVE parseHex4(_, _, _, _)
parseHex4(s, pos, i, decoded) ==
    IF i = 4 THEN Ok(pos, decoded)
    ELSE IF AtEOF(s, pos) THEN Err("failed to read rune", 0)
    ELSE IF hexValue(s[pos + 1]) < 0 THEN Err("invalid hex encoding", 0)
    ELSE parseHex4(s, pos + 1, i + 1, (decoded * 16) + hexValue(s[pos + 1]))

\* parseString at the closing quote
closingQuote(pos, b, prevHex) ==
    IF prevHex > 0 THEN Err("unexpected character", <<>>) ELSE Ok(pos, b)

\* a plausible slip: the surrogate pair is combined without the 0x10000 offset
combineSurrogatesNoOffset(prevHex, decoded) ==
    IF DecodeRune(prevHex, decoded) = Rune.replacement THEN Rune.replacement
    ELSE DecodeRune(prevHex, decoded) - 65536

\* parseString: the code point for a \u escape that follows a pending one
combineSurrogates(prevHex, decoded) == DecodeRune(prevHex, decoded)

\* the body of the loop of parseString; b is the text decoded so far
parseStringIter(s, pos, b, prevHex) ==
    IF AtEOF(s, pos) THEN Err("failed to read rune", <<>>)
    ELSE LET char == s[pos + 1]
         IN
         IF char = Rune.quote THEN closingQuote(pos + 1, b, prevHex)
         ELSE IF char = Rune.backslash
         THEN IF AtEOF(s, pos + 1) THEN Err("failed to read rune", <<>>)
              ELSE LET esc == s[pos + 2]
                   IN
                   IF esc = Rune.u
                   THEN LET hex == parseHex4(s, pos + 2, 0, 0)
                        IN IF hex.st # "ok" THEN Err(hex.err, <<>>)
                           ELSE IF prevHex > 0
                           THEN IF combineSurrogates(prevHex, hex.val) = Rune.replacement
                                THEN Err("invalid character encoding", <<>>)
                                ELSE Again(hex.pos, [b |-> Append(b, combineSurrogates(prevHex, hex.val)), prevHex |-> 0])
                           ELSE IF IsSurrogate(hex.val)
                           THEN Again(hex.pos, [b |-> b, prevHex |-> hex.val])
                           ELSE Again(hex.pos, [b |-> Append(b, hex.val), prevHex |-> 0])
                   ELSE IF prevHex > 0 THEN Err("expected hex encoding", <<>>)
                   ELSE IF esc \in {Rune.quote, Rune.backslash, Rune.slash}
                   THEN Again(pos + 2, [b |-> Append(b, esc), prevHex |-> prevHex])
                   ELSE IF esc = Rune.b
                   THEN Again(pos + 2, [b |-> Append(b, Rune.bs), prevHex |-> prevHex])
                   ELSE IF esc = Rune.f
                   THEN Again(pos + 2, [b |-> Append(b, Rune.ff), prevHex |-> prevHex])
                   ELSE IF esc = Rune.n
                   THEN Again(pos + 2, [b |-> Append(b, Rune.lf), prevHex |-> prevHex])
                   ELSE IF esc = Rune.r
                   THEN Again(pos + 2, [b |-> Append(b, Rune.cr), prevHex |-> prevHex])
                   ELSE IF esc = Rune.t
                   THEN Again(pos + 2, [b |-> Append(b, Rune.tab), prevHex |-> prevHex])
                   ELSE Err("unexpected escape character", <<>>)
         ELSE IF prevHex > 0 THEN Err("expected hex encoding", <<>>)
         ELSE IF char < 32 \/ char > Rune.maxRune THEN Err("invalid character", <<>>)
         ELSE Again(pos + 1, [b |-> Append(b, char), prevHex |-> prevHex])

RECURSIVE parseStringLoop(_, _, _, _)
parseStringLoop(s, pos, b, prevHex) ==
    CHOOSE r \in {IF it.st = "again"
                  THEN parseStringLoop(s, it.pos, it.val.b, it.val.prevHex)
                  ELSE it : it \in {parseStringIter(s, pos, b, prevHex)}} : TRUE

parseString(s, pos) ==
    IF AtEOF(s, pos) THEN Err("failed to read rune", <<>>)
    ELSE IF s[pos + 1] = Rune.replacement THEN Err("invalid encoding", <<>>)
    ELSE IF s[pos + 1] # Rune.quote THEN Err("unexpected character", <<>>)
    ELSE parseStringLoop(s, pos + 1, <<>>, 0)

\* a plausible slip: zero digits are not copied into the extracted text
RECURSIVE numberDigitsDropZero(_, _, _, _)
numberDigitsDropZero(s, pos, extracted, encodingMsg) ==
    IF AtEOF(s, pos) THEN Err("failed to read rune", <<>>)
    ELSE IF s[pos + 1] = Rune.replacement THEN Err(encodingMsg, <<>>)
    ELSE IF ~isDigitCharacter(s[pos + 1]) THEN Ok(pos, extracted)
    ELSE numberDigitsDropZero(s, pos + 1,
             IF s[pos + 1] = Rune.zero THEN extracted ELSE Append(extracted, s[pos + 1]),
             encodingMsg)

\* extractNumber: the digit loops of the integer part and of the fraction,
\* which fail at end of input and stop (with UnreadRune) at a non-digit
numberDigitsIter(s, pos, extracted, encodingMsg) ==
    IF AtEOF(s, pos) THEN Err("failed to read rune", <<>>)
    ELSE IF s[pos + 1] = Rune.replacement THEN Err(encodingMsg, <<>>)
    ELSE IF ~isDigitCharacter(s[pos + 1]) THEN Ok(pos, extracted)
    ELSE Again(pos + 1, Append(extracted, s[pos + 1]))

RECURSIVE numberDigits(_, _, _, _)
numberDigits(s, pos, extracted, encodingMsg) ==
    CHOOSE r \in {IF it.st = "again"
                  THEN numberDigits(s, it.pos, it.val, encodingMsg)
                  ELSE it : it \in {numberDigitsIter(s, pos, extracted, encodingMsg)}} : TRUE

\* extractNumber: the digit loop of the exponent, which returns at end of input
exponentDigitsIter(s, pos, extracted) ==
    IF AtEOF(s, pos) THEN Ok(pos, extracted)
    ELSE IF s[pos + 1] = Rune.replacement THEN Err("invalid encoding", <<>>)
    ELSE IF ~isDigitCharacter(s[pos + 1]) THEN Ok(pos, extracted)
    ELSE Again(pos + 1, Append(extracted, s[pos + 1]))

RECURSIVE exponentDigits(_, _, _)
exponentDigits(s, pos, extracted) ==
    CHOOSE r \in {IF it.st = "again" THEN exponentDigits(s, it.pos, it.val) ELSE it :
                  it \in {exponentDigitsIter(s, pos, extracted)}} : TRUE

\* extractNumber from the optional exponent on
numberExponent(s, pos, extracted) ==
    IF AtEOF(s, pos) THEN Ok(pos, extracted)
    ELSE IF s[pos + 1] = Rune.replacement THEN Err("invalid encoding", <<>>)
    ELSE IF s[pos + 1] \notin {Rune.upE, Rune.e} THEN Ok(pos, extracted)
    ELSE IF AtEOF(s, pos + 1) THEN Err("failed to read rune", <<>>)
    ELSE IF s[pos + 2] = Rune.replacement THEN Err("invalid encoding", <<>>)
    ELSE LET signed == s[pos + 2] \in {Rune.minus, Rune.plus}
             pos2 == IF signed THEN pos + 2 ELSE pos + 1
             ext2 == IF signed THEN extracted \o <<s[pos + 1], s[pos + 2]>>
                     ELSE Append(extracted, s[pos + 1])
         IN IF AtEOF(s, pos2) THEN Err("failed to read rune", <<>>)
            ELSE IF s[pos2 + 1] = Rune.replacement THEN Err("invalid encoding", <<>>)
            ELSE IF ~isDigitCharacter(s[pos2 + 1]) THEN Err("unexpected character", <<>>)
            ELSE exponentDigits(s, pos2 + 1, Append(ext2, s[pos2 + 1]))

\* extractNumber from the optional fraction on
numberFraction(s, pos, extracted) ==
    IF AtEOF(s, pos) THEN Ok(pos, extracted)
    ELSE IF s[pos + 1] = Rune.replacement THEN Err("invalid encoding", <<>>)
    ELSE IF s[pos + 1] = Rune.dot
    THEN LET frac == numberDigits(s, pos + 1, Append(extracted, Rune.dot), "invalid encoding")
         IN IF frac.st # "ok" THEN frac ELSE numberExponent(s, frac.pos, frac.val)
    ELSE numberExponent(s, pos, extracted)

extractNumber(s, pos) ==
    IF AtEOF(s, pos) THEN Err("failed to read rune", <<>>)
    ELSE IF s[pos + 1] = Rune.replacement THEN Err("invalid encoding", <<>>)
    ELSE LET negative == s[pos + 1] = Rune.minus
             pos1 == IF negative THEN pos + 1 ELSE pos
             ext1 == IF negative THEN <<Rune.minus>> ELSE <<>>
         IN IF AtEOF(s, pos1) THEN Err("failed to read rune", <<>>)
            ELSE IF s[pos1 + 1] = Rune.replacement THEN Err("invalid encoding", <<>>)
            ELSE IF s[pos1 + 1] = Rune.zero
            THEN numberFraction(s, pos1 + 1, Append(ext1, Rune.zero))
            ELSE IF s[pos1 + 1] >= Rune.one /\ s[pos1 + 1] <= Rune.nine
            THEN LET int == numberDigits(s, pos1 + 1, Append(ext1, s[pos1 + 1]),
                                         "invalid character encoding")
                 IN IF int.st # "ok" THEN int ELSE numberFraction(s, int.pos, int.val)
            ELSE Err("unexpected character", <<>>)

\* the loop of extractIdentifier
identifierIter(s, pos, extracted) ==
    IF AtEOF(s, pos) THEN Ok(pos, extracted)
    ELSE IF s[pos + 1] = Rune.replacement THEN Err("invalid encoding", <<>>)
    ELSE IF ~isIdentifierCharacter(s[pos + 1]) THEN Ok(pos, extracted)
    ELSE Again(pos + 1, Append(extracted, s[pos + 1]))

RECURSIVE identifierLoop(_, _, _)
identifierLoop(s, pos, extracted) ==
    CHOOSE r \in {IF it.st = "again" THEN identifierLoop(s, it.pos, it.val) ELSE it :
                  it \in {identifierIter(s, pos, extracted)}} : TRUE

extractIdentifier(s, pos) ==
    IF AtEOF(s, pos) THEN Err("failed to read rune", <<>>)
    ELSE IF s[pos + 1] = Rune.replacement THEN Err("invalid encoding", <<>>)
    ELSE IF ~isIdentifierCharacter(s[pos + 1]) THEN Err("unexpected character", <<>>)
    ELSE identifierLoop(s, pos + 1, <<s[pos + 1]>>)

\* the if-chain on nextChar that picks the production for a value
valueKind(nextChar) ==
    IF nextChar = Rune.lbrace THEN "object"
    ELSE IF nextChar = Rune.lbracket THEN "array"
    ELSE IF nextChar = Rune.quote THEN "string"
    ELSE IF isDigitCharacter(nextChar) THEN "number"
    ELSE "identifier"

\* parseEmbeddedObject: `if object.Has(key)` after the member name is parsed
duplicateMember(object, key) == Has(object, key)

\* parseEmbeddedArray: `array := ArrayStruct{}`, the zero value, not NewArray()
parsedArrayStart == ArrayZero

RECURSIVE parseEmbeddedObject(_, _), parseEmbeddedArray(_, _), parseValue(_, _, _),
          objectLoop(_, _, _), objectIter(_, _, _),
          objectMember(_, _, _, _), objectStore(_, _, _, _, _), objectNext(_, _, _),
          arrayLoop(_, _, _), arrayIter(_, _, _),
          arrayStore(_, _, _, _), arrayNext(_, _, _)

\* the production picked for the value that starts at pos
parseValue(s, pos, kind) ==
    CASE kind = "object" -> parseEmbeddedObject(s, pos)
      [] kind = "array" -> parseEmbeddedArray(s, pos)
      [] kind = "string" -> parseString(s, pos)
      [] kind = "number" -> extractNumber(s, pos)
      [] kind = "identifier" -> extractIdentifier(s, pos)

\* parseEmbeddedObject after a member's value is stored: '}' ends, ',' repeats
objectNext(s, pos, object) ==
    LET ws == skipWhitespace(s, pos)
    IN IF ws.st # "ok" THEN Err(ws.err, ObjectZero)
       ELSE IF AtEOF(s, ws.pos) THEN Err("failed to read rune", ObjectZero)
       ELSE IF s[ws.pos + 1] = Rune.replacement THEN Err("invalid encoding", ObjectZero)
       ELSE IF s[ws.pos + 1] = Rune.rbrace THEN Ok(ws.pos + 1, object)
       ELSE IF s[ws.pos + 1] # Rune.comma THEN Err("unexpected character", ObjectZero)
       ELSE Again(ws.pos + 1, object)

\* parseEmbeddedObject: sub is what the production for the value returned;
\* on success the value is set under key
objectStore(s, object, key, kind, sub) ==
    IF sub.st = "panic" THEN Fault(sub.err, ObjectZero)
    ELSE IF sub.st = "err" THEN Err(sub.err, ObjectZero)
    ELSE IF kind = "object" THEN objectNext(s, sub.pos, SetJSONObject(object, key, sub.val))
    ELSE IF kind = "array" THEN objectNext(s, sub.pos, SetJSONArray(object, key, sub.val))
    ELSE IF kind = "string" THEN objectNext(s, sub.pos, SetString(object, key, sub.val))
    ELSE IF kind = "number" THEN objectNext(s, sub.pos, SetNumber(object, key, sub.val))
    ELSE IF sub.val \notin {TrueText, FalseText, NullText}
    THEN Err("unexpected identifier", ObjectZero)
    ELSE objectNext(s, sub.pos,
             IF sub.val = NullText THEN SetNull(object, key)
             ELSE SetBool(object, key, sub.val = TrueText))

\* parseEmbeddedObject from the ':' of the member named key to its value
objectMember(s, pos, object, key) ==
    LET ws1 == skipWhitespace(s, pos)
        ws2 == skipWhitespace(s, ws1.pos + 1)
    IN IF ws1.st # "ok" THEN Err(ws1.err, ObjectZero)
       ELSE IF AtEOF(s, ws1.pos) THEN Err("failed to read rune", ObjectZero)
       ELSE IF s[ws1.pos + 1] = Rune.replacement THEN Err("invalid encoding", ObjectZero)
       ELSE IF s[ws1.pos + 1] # Rune.colon THEN Err("unexpected character", ObjectZero)
       ELSE IF ws2.st # "ok" THEN Err(ws2.err, ObjectZero)
       ELSE IF AtEOF(s, ws2.pos) THEN Err("failed to read rune", ObjectZero)
       ELSE CHOOSE r \in {objectStore(s, object, key, valueKind(s[ws2.pos + 1]), sub) :
                          sub \in {parseValue(s, ws2.pos, valueKind(s[ws2.pos + 1]))}} : TRUE

\* one pass through the body of the loop of parseEmbeddedObject, from its top:
\* '}' or a member name
objectIter(s, pos, object) ==
    LET ws == skipWhitespace(s, pos)
    IN IF ws.st # "ok" THEN Err(ws.err, ObjectZero)
       ELSE IF AtEOF(s, ws.pos) THEN Err("failed to read rune", ObjectZero)
       ELSE IF s[ws.pos + 1] = Rune.replacement THEN Err("invalid encoding", ObjectZero)
       ELSE IF s[ws.pos + 1] = Rune.rbrace THEN Ok(ws.pos + 1, object)
       ELSE CHOOSE r \in {IF name.st # "ok" THEN Err(name.err, ObjectZero)
                          ELSE IF duplicateMember(object, name.val)
                          THEN Err("duplicate member name", ObjectZero)
                          ELSE objectMember(s, name.pos, object, name.val) :
                          name \in {parseString(s, ws.pos)}} : TRUE

\* the loop of parseEmbeddedObject: passes through its body until one returns
objectLoop(s, pos, object) ==
    CHOOSE r \in {IF it.st = "again" THEN objectLoop(s, it.pos, it.val) ELSE it :
                  it \in {objectIter(s, pos, object)}} : TRUE

parseEmbeddedObject(s, pos) ==
    LET ws == skipWhitespace(s, pos)
    IN IF ws.st # "ok" THEN Err(ws.err, ObjectZero)
       ELSE IF AtEOF(s, ws.pos) THEN Err("failed to read rune", ObjectZero)
       ELSE IF s[ws.pos + 1] = Rune.replacement THEN Err("invalid encoding", ObjectZero)
       ELSE IF s[ws.pos + 1] # Rune.lbrace THEN Err("unexpected character", ObjectZero)
       ELSE objectLoop(s, ws.pos + 1, NewObject)

\* parseEmbeddedArray after an element is added (array is a panic when the
\* Add* call faulted): ']' ends, ',' repeats
arrayNext(s, pos, array) ==
    LET ws == skipWhitespace(s, pos)
    IN IF IsPanic(array) THEN Fault(array.panic, ArrayZero)
       ELSE IF ws.st # "ok" THEN Err(ws.err, ArrayZero)
       ELSE IF AtEOF(s, ws.pos) THEN Err("failed to read rune", ArrayZero)
       ELSE IF s[ws.pos + 1] = Rune.replacement THEN Err("invalid encoding", ArrayZero)
       ELSE IF s[ws.pos + 1] = Rune.rbracket THEN Ok(ws.pos + 1, array)
       ELSE IF s[ws.pos + 1] # Rune.comma THEN Err("unexpected character", ArrayZero)
       ELSE Again(ws.pos + 1, array)

\* parseEmbeddedArray: sub is what the production for the element returned;
\* on success the element is appended
arrayStore(s, array, kind, sub) ==
    IF sub.st = "panic" THEN Fault(sub.err, ArrayZero)
    ELSE IF sub.st = "err" THEN Err(sub.err, ArrayZero)
    ELSE IF kind = "object" THEN arrayNext(s, sub.pos, ArrayAddJSONObject(array, sub.val))
    ELSE IF kind = "array" THEN arrayNext(s, sub.pos, ArrayAddJSONArray(array, sub.val))
    ELSE IF kind = "string" THEN arrayNext(s, sub.pos, ArrayAddString(array, sub.val))
    ELSE IF kind = "number" THEN arrayNext(s, sub.pos, ArrayAddNumber(array, sub.val))
    ELSE IF sub.val \notin {TrueText, FalseText, NullText}
    THEN Err("unexpected identifier", ArrayZero)
    ELSE arrayNext(s, sub.pos,
             IF sub.val = NullText THEN ArrayAddNull(array)
             ELSE ArrayAddBool(array, sub.val = TrueText))

\* one pass through the body of the loop of parseEmbeddedArray, from its top:
\* ']' or an element
arrayIter(s, pos, array) ==
    LET ws == skipWhitespace(s, pos)
    IN IF ws.st # "ok" THEN Err(ws.err, ArrayZero)
       ELSE IF AtEOF(s, ws.pos) THEN Err("failed to read rune", ArrayZero)
       ELSE IF s[ws.pos + 1] = Rune.replacement THEN Err("invalid encoding", ArrayZero)
       ELSE IF s[ws.pos + 1] = Rune.rbracket THEN Ok(ws.pos + 1, array)
       ELSE CHOOSE r \in {arrayStore(s, array, valueKind(s[ws.pos + 1]), sub) :
                          sub \in {parseValue(s, ws.pos, valueKind(s[ws.pos + 1]))}} : TRUE

\* the loop of parseEmbeddedArray: passes through its body until one returns
arrayLoop(s, pos, array) ==
    CHOOSE r \in {IF it.st = "again" THEN arrayLoop(s, it.pos, it.val) ELSE it :
                  it \in {arrayIter(s, pos, array)}} : TRUE

parseEmbeddedArray(s, pos) ==
    LET ws == skipWhitespace(s, pos)
    IN IF ws.st # "ok" THEN Err(ws.err, ArrayZero)
       ELSE IF AtEOF(s, ws.pos) THEN Err("failed to read rune", ArrayZero)
       ELSE IF s[ws.pos + 1] = Rune.replacement THEN Err("invalid encoding", ArrayZero)
       ELSE IF s[ws.pos + 1] # Rune.lbracket THEN Err("unexpected character", ArrayZero)
       ELSE arrayLoop(s, ws.pos + 1, parsedArrayStart)

ParseObject(s) ==
    LET parsed == parseEmbeddedObject(s, 0)
        end == parseEnd(s, parsed.pos)
    IN IF parsed.st # "ok" THEN parsed
       ELSE IF end.st # "ok" THEN Err(end.err, ObjectZero)
       ELSE parsed

ParseArray(s) ==
    LET parsed == parseEmbeddedArray(s, 0)
        end == parseEnd(s, parsed.pos)
    IN IF parsed.st # "ok" THEN parsed
       ELSE IF end.st # "ok" THEN Err(end.err, ArrayZero)
       ELSE parsed

(***************************************************************************)
(* Bounds                                                                  *)
(***************************************************************************)
MaxKeys == 2        \* distinct member names a caller sets
MaxSrcLen == 2      \* runes in a string handed to encodeString
MaxNumLen == 4      \* runes in a generated number literal
MaxMembers == 2     \* members in a generated object text
MaxElems == 3       \* elements in a generated array text
MaxStrToks == 3     \* pieces in a generated string literal
MaxArrLen == 2      \* elements a caller adds to an array
MaxPad == 2         \* whitespace runes put around the brackets of an empty text
MaxItems == 2       \* members or elements in a generated document
MaxAliasKeys == 1   \* member names set on a value that is shared with a container
MaxLoopToks == 3    \* pieces of input left in front of a running parser loop
MaxBad == 1         \* U+FFFD runes put into a well-formed text
MaxEscToks == 2     \* escapes and raw runes between the quotes of a string literal
MaxStringItems == 2 \* members or elements of a container that is serialized
MaxBuildCalls == 3  \* Add* calls made on one builder
MaxInt32Calls == 2  \* number stores made before GetInt32 is called

NoResult == [st |-> "none", err |-> "", pos |-> 0, val |-> <<>>]

\* the escaping policies tried: each predicate constantly true or false
Behaviors == [useCharacter : BOOLEAN, useShorthand : BOOLEAN]

NoShorthandBehavior == [useCharacter |-> FALSE, useShorthand |-> FALSE]

(***************************************************************************)
(* Spec: a caller builds an Object through the Set* methods.               *)
(***************************************************************************)
Keys == {<<96 + i>> : i \in 1..MaxKeys}

StringValues == {<<120>>}
NumberValues == {<<49, 46, 53, 48>>}
IntValues == {-1}
ObjectValues == {NewObject, SetString(NewObject, <<122>>, <<120>>)}
ArrayValues == {NewArray, ArrayAddNull(NewArray)}

\* the kind map that holds key, "" when absent
KindOf(object, key) ==
    IF key \in DOMAIN object.strings THEN "strings"
    ELSE IF key \in DOMAIN object.numbers THEN "numbers"
    ELSE IF key \in DOMAIN object.bools THEN "bools"
    ELSE IF key \in DOMAIN object.nulls THEN "nulls"
    ELSE IF key \in DOMAIN object.objects THEN "objects"
    ELSE IF key \in DOMAIN object.arrays THEN "arrays"
    ELSE ""

InSeq(x, q) == \E i \in 1..Len(q) : q[i] = x

IdleEncode == src = <<>> /\ policy = MinimalStringCharacterEscapingBehavior /\ encoded = <<>>

IdleParse == gen = <<>> /\ input = <<>> /\ result = NoResult

NoOp == [key |-> <<>>, replaced |-> "none"]

IdleObject == obj = NewObject /\ firstSet = <<>> /\ lastOp = NoOp /\ stored = EmptyMap

NoArrOp == [op |-> "none", index |-> 0, fault |-> FALSE]

IdleArray == arr = NewArray /\ arrOp = NoArrOp /\ arrStored = EmptyMap

IdleAlias == heap = <<>> /\ handles = <<>> /\ snapshot = <<>>

Init == IdleObject /\ IdleArray /\ IdleAlias /\ IdleEncode /\ IdleParse

\* the history kept beside a Set* call on key: whether the call met a fresh
\* key, a key holding the same kind, or a key holding another kind
Recorded(key, kind, value) ==
    /\ stored' = MapPut(stored, key, [kind |-> kind, value |-> value])
    /\ firstSet' = IF InSeq(key, firstSet) THEN firstSet ELSE Append(firstSet, key)
    /\ lastOp' = [key |-> key,
                  replaced |-> IF KindOf(obj, key) = "" THEN "fresh"
                               ELSE IF KindOf(obj, key) = KindOf(obj', key) THEN "same"
                               ELSE "other"]
    /\ UNCHANGED <<arrVars, aliasVars, src, policy, encoded, gen, input, result>>

DoSetString ==
    \E key \in Keys, value \in StringValues :
        obj' = SetString(obj, key, value) /\ Recorded(key, "strings", value)

DoSetNumber ==
    \E key \in Keys, value \in NumberValues :
        obj' = SetNumber(obj, key, value) /\ Recorded(key, "numbers", value)

DoSetInt ==
    \E key \in Keys, value \in IntValues :
        obj' = SetInt(obj, key, value) /\ Recorded(key, "numbers", FormatInt(value))

DoSetBool ==
    \E key \in Keys, value \in BOOLEAN :
        obj' = SetBool(obj, key, value) /\ Recorded(key, "bools", value)

DoSetNull ==
    \E key \in Keys : obj' = SetNull(obj, key) /\ Recorded(key, "nulls", TRUE)

DoSetJSONObject ==
    \E key \in Keys, value \in ObjectValues :
        obj' = SetJSONObject(obj, key, value) /\ Recorded(key, "objects", value)

DoSetJSONArray ==
    \E key \in Keys, value \in ArrayValues :
        obj' = SetJSONArray(obj, key, value) /\ Recorded(key, "arrays", value)

Next ==
    \/ DoSetString
    \/ DoSetNumber
    \/ DoSetInt
    \/ DoSetBool
    \/ DoSetNull
    \/ DoSetJSONObject
    \/ DoSetJSONArray

Spec == Init /\ [][Next]_vars

(***************************************************************************)
(* SpecArray: a caller builds an Array through the Add* and Set* methods;  *)
(* Set* is tried at every index from -1 to MaxArrLen.  A call that panics  *)
(* is recovered by the caller: the panic comes before any store.           *)
(***************************************************************************)
Indexes == -1..MaxArrLen

\* the history kept beside a call: after is what the method returned
ArrRecorded(op, kind, index, value, after) ==
    /\ arr' = IF IsPanic(after) THEN arr ELSE after
    /\ arrOp' = [op |-> op, index |-> index, fault |-> IsPanic(after)]
    /\ arrStored' = IF IsPanic(after) THEN arrStored
                    ELSE MapPut(arrStored, index, [kind |-> kind, value |-> value])
    /\ UNCHANGED <<stored, aliasVars, obj, firstSet, lastOp, src, policy, encoded, gen, input, result>>

ArrDoAddString ==
    /\ arr.length < MaxArrLen
    /\ \E value \in StringValues :
        ArrRecorded("add", "strings", arr.length, value, ArrayAddString(arr, value))

ArrDoSetString ==
    \E index \in Indexes, value \in StringValues :
        ArrRecorded("set", "strings", index, value, ArraySetString(arr, index, value))

ArrDoAddNumber ==
    /\ arr.length < MaxArrLen
    /\ \E value \in NumberValues :
        ArrRecorded("add", "numbers", arr.length, value, ArrayAddNumber(arr, value))

ArrDoSetNumber ==
    \E index \in Indexes, value \in NumberValues :
        ArrRecorded("set", "numbers", index, value, ArraySetNumber(arr, index, value))

ArrDoAddInt ==
    /\ arr.length < MaxArrLen
    /\ \E value \in IntValues :
        ArrRecorded("add", "numbers", arr.length, FormatInt(value), ArrayAddInt(arr, value))

ArrDoSetInt ==
    \E index \in Indexes, value \in IntValues :
        ArrRecorded("set", "numbers", index, FormatInt(value), ArraySetInt(arr, index, value))

ArrDoAddBool ==
    /\ arr.length < MaxArrLen
    /\ \E value \in BOOLEAN :
        ArrRecorded("add", "bools", arr.length, value, ArrayAddBool(arr, value))

ArrDoSetBool ==
    \E index \in Indexes, value \in BOOLEAN :
        ArrRecorded("set", "bools", index, value, ArraySetBool(arr, index, value))

ArrDoAddJSONObject ==
    /\ arr.length < MaxArrLen
    /\ \E value \in ObjectValues :
        ArrRecorded("add", "objects", arr.length, value, ArrayAddJSONObject(arr, value))

ArrDoSetJSONObject ==
    \E index \in Indexes, value \in ObjectValues :
        ArrRecorded("set", "objects", index, value, ArraySetJSONObject(arr, index, value))

ArrDoAddJSONArray ==
    /\ arr.length < MaxArrLen
    /\ \E value \in ArrayValues :
        ArrRecorded("add", "arrays", arr.length, value, ArrayAddJSONArray(arr, value))

ArrDoSetJSONArray ==
    \E index \in Indexes, value \in ArrayValues :
        ArrRecorded("set", "arrays", index, value, ArraySetJSONArray(arr, index, value))

ArrDoAddNull ==
    /\ arr.length < MaxArrLen
    /\ ArrRecorded("add", "nulls", arr.length, TRUE, ArrayAddNull(arr))

ArrDoSetNull ==
    \E index \in Indexes :
        ArrRecorded("set", "nulls", index, TRUE, ArraySetNull(arr, index))

NextArray ==
    \/ ArrDoAddString
    \/ ArrDoSetString
    \/ ArrDoAddNumber
    \/ ArrDoSetNumber
    \/ ArrDoAddInt
    \/ ArrDoSetInt
    \/ ArrDoAddBool
    \/ ArrDoSetBool
    \/ ArrDoAddJSONObject
    \/ ArrDoSetJSONObject
    \/ ArrDoAddJSONArray
    \/ ArrDoSetJSONArray
    \/ ArrDoAddNull
    \/ ArrDoSetNull

InitArray == IdleObject /\ IdleArray /\ IdleAlias /\ IdleEncode /\ IdleParse

SpecArray == InitArray /\ [][NextArray]_vars

(***************************************************************************)
(* SpecContainers: a caller works on one container, an Object through the  *)
(* Set* methods or an Array through the Add* and Set* methods.             *)
(***************************************************************************)
NextContainers ==
    \/ IdleArray /\ Next
    \/ IdleObject /\ NextArray

SpecContainers == Init /\ [][NextContainers]_vars

(***************************************************************************)
(* SpecEmpty: a container nothing was added to is serialized.  It comes    *)
(* from NewObject/NewArray, from parsing an empty text with whitespace     *)
(* around its brackets, or it is a builder on which Done is called first.  *)
(***************************************************************************)
WhitespaceRunes == {Rune.space, Rune.tab, Rune.cr, Rune.lf}

EmptySources ==
    {"NewObject", "NewArray", "ParseObject", "ParseArray", "ObjectBuilder", "ArrayBuilder"}

\* pad { pad } pad, or with [ and ]
EmptyText(open, close, pad) == pad \o <<open>> \o pad \o <<close>> \o pad

InitEmpty ==
    /\ IdleObject /\ IdleArray /\ IdleAlias
    /\ src = <<>> /\ encoded = <<>> /\ policy \in Behaviors
    /\ gen \in [source : EmptySources, pad : {<<>>}]
    /\ input = <<>> /\ result = NoResult

EmptyPad ==
    /\ gen.source \in {"ParseObject", "ParseArray"}
    /\ result = NoResult
    /\ Len(gen.pad) < MaxPad
    /\ \E r \in WhitespaceRunes : gen' = [gen EXCEPT !.pad = Append(@, r)]
    /\ UNCHANGED <<arrVars, stored, aliasVars, obj, firstSet, lastOp, src, policy, encoded, input, result>>

\* obj := ParseObject(text), kept when err == nil
EmptyParseObject ==
    /\ gen.source = "ParseObject"
    /\ result = NoResult
    /\ input' = EmptyText(Rune.lbrace, Rune.rbrace, gen.pad)
    /\ result' = ParseObject(input')
    /\ obj' = IF result'.st = "ok" THEN result'.val ELSE obj
    /\ UNCHANGED <<arrVars, stored, aliasVars, firstSet, lastOp, src, policy, encoded, gen>>

\* arr := ParseArray(text), kept when err == nil
EmptyParseArray ==
    /\ gen.source = "ParseArray"
    /\ result = NoResult
    /\ input' = EmptyText(Rune.lbracket, Rune.rbracket, gen.pad)
    /\ result' = ParseArray(input')
    /\ arr' = IF result'.st = "ok" THEN result'.val ELSE arr
    /\ UNCHANGED <<arrOp, arrStored, stored, aliasVars, obj, firstSet, lastOp, src, policy, encoded, gen>>

EmptyObjectString ==
    /\ gen.source = "NewObject" \/ (gen.source = "ParseObject" /\ result.st = "ok")
    /\ encoded = <<>>
    /\ encoded' = ObjectString(obj, policy)
    /\ UNCHANGED <<arrVars, stored, aliasVars, obj, firstSet, lastOp, src, policy, gen, input, result>>

EmptyArrayString ==
    /\ gen.source = "NewArray" \/ (gen.source = "ParseArray" /\ result.st = "ok")
    /\ encoded = <<>>
    /\ encoded' = ArrayString(arr, policy)
    /\ UNCHANGED <<arrVars, stored, aliasVars, obj, firstSet, lastOp, src, policy, gen, input, result>>

EmptyObjectBuilderDone ==
    /\ gen.source = "ObjectBuilder"
    /\ encoded = <<>>
    /\ encoded' = ObjectBuilderDone(NewObjectBuilder(policy))
    /\ UNCHANGED <<arrVars, stored, aliasVars, obj, firstSet, lastOp, src, policy, gen, input, result>>

EmptyArrayBuilderDone ==
    /\ gen.source = "ArrayBuilder"
    /\ encoded = <<>>
    /\ encoded' = ArrayBuilderDone(NewArrayBuilder(policy))
    /\ UNCHANGED <<arrVars, stored, aliasVars, obj, firstSet, lastOp, src, policy, gen, input, result>>

NextEmpty ==
    \/ EmptyPad
    \/ EmptyParseObject
    \/ EmptyParseArray
    \/ EmptyObjectString
    \/ EmptyArrayString
    \/ EmptyObjectBuilderDone
    \/ EmptyArrayBuilderDone

SpecEmpty == InitEmpty /\ [][NextEmpty]_vars

(***************************************************************************)
(* SpecAlias: a caller holds a container c and a value v, both made by     *)
(* NewObject, stores v in c with c.SetJSONObject("n", v), reads it back    *)
(* into g with c.GetJSONObject("n"), and goes on setting members of its    *)
(* own v and g.  snapshot is what c reported right after the last store.   *)
(***************************************************************************)
AliasKeys == {<<96 + i>> : i \in 1..MaxAliasKeys}

\* "x", "y", "z"
AliasValues == {<<120>>, <<121>>, <<122>>}

NestedKey == <<110>>

NoSnapshot == [shared |-> FALSE, string |-> <<>>, nested |-> ObjectZero]

\* what the container serializes and what it holds under NestedKey
Report(h, container) ==
    [shared |-> TRUE,
     string |-> ObjectString(Deref(h, container), MinimalStringCharacterEscapingBehavior),
     nested |-> Deref(h, HeapGetJSONObject(h, container, NestedKey).value)]

InitAlias ==
    /\ obj = NewObject /\ firstSet = <<>> /\ lastOp = NoOp /\ stored = EmptyMap
    /\ IdleArray /\ IdleEncode /\ IdleParse
    /\ LET c == HeapNewObject(<<>>)
           v == HeapNewObject(c.heap)
       IN /\ heap = v.heap
          /\ handles = [c |-> c.object, v |-> v.object, g |-> ZeroHandle]
    /\ snapshot = NoSnapshot

AliasFrame ==
    UNCHANGED <<arrVars, stored, obj, firstSet, lastOp, src, policy, encoded, gen, input, result>>

\* v.SetString(key, value) or g.SetString(key, value)
AliasSetString ==
    \E who \in {"v", "g"}, key \in AliasKeys, value \in AliasValues :
        /\ handles[who].maps # 0
        /\ LET r == HeapSet(heap, handles[who], "strings", key, value)
           IN heap' = r.heap /\ handles' = [handles EXCEPT ![who] = r.object]
        /\ UNCHANGED snapshot
        /\ AliasFrame

\* v.SetNull(key) or g.SetNull(key)
AliasSetNull ==
    \E who \in {"v", "g"}, key \in AliasKeys :
        /\ handles[who].maps # 0
        /\ LET r == HeapSet(heap, handles[who], "nulls", key, TRUE)
           IN heap' = r.heap /\ handles' = [handles EXCEPT ![who] = r.object]
        /\ UNCHANGED snapshot
        /\ AliasFrame

\* c.SetJSONObject("n", v)
AliasSetJSONObject ==
    /\ LET r == HeapSet(heap, handles.c, "objects", NestedKey, handles.v)
       IN heap' = r.heap /\ handles' = [handles EXCEPT !.c = r.object]
    /\ snapshot' = Report(heap', handles'.c)
    /\ AliasFrame

\* g, err := c.GetJSONObject("n"), kept when err == nil
AliasGetJSONObject ==
    /\ HeapGetJSONObject(heap, handles.c, NestedKey).err = ""
    /\ handles' = [handles EXCEPT !.g = HeapGetJSONObject(heap, handles.c, NestedKey).value]
    /\ UNCHANGED <<heap, snapshot>>
    /\ AliasFrame

NextAlias ==
    \/ AliasSetString
    \/ AliasSetNull
    \/ AliasSetJSONObject
    \/ AliasGetJSONObject

SpecAlias == InitAlias /\ [][NextAlias]_vars

(***************************************************************************)
(* SpecEncode: encodeString applied to a string under a policy.            *)
(***************************************************************************)
\* '"', LF, 'f', 'a', '\', U+0001, U+1D11E
SrcRunes == {34, 10, 102, 97, 92, 1, 119070}

InitEncode ==
    /\ IdleObject /\ IdleArray /\ IdleAlias /\ IdleParse
    /\ src = <<>> /\ encoded = <<>>
    /\ policy \in Behaviors

EncAppendRune ==
    /\ encoded = <<>>
    /\ Len(src) < MaxSrcLen
    /\ \E r \in SrcRunes : src' = Append(src, r)
    /\ UNCHANGED <<arrVars, stored, aliasVars, obj, firstSet, lastOp, policy, encoded, gen, input, result>>

EncEncode ==
    /\ encoded = <<>>
    /\ encoded' = encodeString(src, policy)
    /\ UNCHANGED <<arrVars, stored, aliasVars, obj, firstSet, lastOp, src, policy, gen, input, result>>

NextEncode == EncAppendRune \/ EncEncode

SpecEncode == InitEncode /\ [][NextEncode]_vars

(***************************************************************************)
(* SpecParseNum: ParseObject applied to {"x":<literal>} for every literal  *)
(* of up to MaxNumLen runes over the runes a number is made of.            *)
(***************************************************************************)
\* '0', '1', '5', '.', 'e', 'E', '+', '-'
NumRunes == {48, 49, 53, 46, 101, 69, 43, 45}

NumKey == <<120>>

NumText(literal) == <<123, 34, 120, 34, 58>> \o literal \o <<125>>

InitParse == IdleObject /\ IdleArray /\ IdleAlias /\ IdleEncode /\ IdleParse

NumAppend ==
    /\ result = NoResult
    /\ Len(gen) < MaxNumLen
    /\ \E r \in NumRunes : gen' = Append(gen, r)
    /\ input' = NumText(gen')
    /\ UNCHANGED <<arrVars, stored, aliasVars, obj, firstSet, lastOp, src, policy, encoded, result>>

NumParse ==
    /\ result = NoResult
    /\ gen # <<>>
    /\ result' = ParseObject(input)
    /\ UNCHANGED <<arrVars, stored, aliasVars, obj, firstSet, lastOp, src, policy, encoded, gen, input>>

NextParseNum == NumAppend \/ NumParse

SpecParseNum == InitParse /\ [][NextParseNum]_vars

(***************************************************************************)
(* SpecParseDup: ParseObject applied to object texts assembled from        *)
(* members; a member is a spelling of a name and a value text.             *)
(***************************************************************************)
\* "a", "a" (the same name, escaped) and "b"
NameText == [a |-> <<34, 97, 34>>,
             ua |-> <<34, 92, 117, 48, 48, 54, 49, 34>>,
             b |-> <<34, 98, 34>>]

NameResolved == [a |-> <<97>>, ua |-> <<97>>, b |-> <<98>>]

\* 1, "a", {"a":2}, {"a":1,"a":2}, [1], -1
ValueText == [num |-> <<49>>,
              str |-> <<34, 97, 34>>,
              nested |-> <<123, 34, 97, 34, 58, 50, 125>>,
              nesteddup |-> <<123, 34, 97, 34, 58, 49, 44, 34, 92, 117, 48, 48, 54, 49, 34, 58, 50, 125>>,
              arr |-> <<91, 49, 93>>,
              neg |-> <<45, 49>>]

Members == [name : DOMAIN NameText, value : DOMAIN ValueText]

\* the texts q[1], q[2], ... with a comma between neighbours
RECURSIVE Join(_)
Join(q) ==
    IF q = <<>> THEN <<>>
    ELSE IF Len(q) = 1 THEN q[1]
    ELSE q[1] \o <<Rune.comma>> \o Join(Tail(q))

DupText(members) ==
    <<Rune.lbrace>>
    \o Join([i \in 1..Len(members) |->
                NameText[members[i].name] \o <<Rune.colon>> \o ValueText[members[i].value]])
    \o <<Rune.rbrace>>

DupAddMember ==
    /\ result = NoResult
    /\ Len(gen) < MaxMembers
    /\ \E m \in Members : gen' = Append(gen, m)
    /\ input' = DupText(gen')
    /\ UNCHANGED <<arrVars, stored, aliasVars, obj, firstSet, lastOp, src, policy, encoded, result>>

DupParse ==
    /\ result = NoResult
    /\ gen # <<>>
    /\ result' = ParseObject(input)
    /\ UNCHANGED <<arrVars, stored, aliasVars, obj, firstSet, lastOp, src, policy, encoded, gen, input>>

NextParseDup == DupAddMember \/ DupParse

SpecParseDup == InitParse /\ [][NextParseDup]_vars

(***************************************************************************)
(* SpecParseArr: ParseArray applied to array texts assembled from          *)
(* well-formed elements.                                                   *)
(***************************************************************************)
\* "a", 1, true, false, null, {}, []
ElemText == [str |-> <<34, 97, 34>>,
             num |-> <<49>>,
             true |-> TrueText,
             false |-> FalseText,
             null |-> NullText,
             obj |-> <<123, 125>>,
             arr |-> <<91, 93>>]

ArrText(elems) ==
    <<Rune.lbracket>> \o Join([i \in 1..Len(elems) |-> ElemText[elems[i]]])
    \o <<Rune.rbracket>>

ArrAddElement ==
    /\ result = NoResult
    /\ Len(gen) < MaxElems
    /\ \E el \in DOMAIN ElemText : gen' = Append(gen, el)
    /\ input' = ArrText(gen')
    /\ UNCHANGED <<arrVars, stored, aliasVars, obj, firstSet, lastOp, src, policy, encoded, result>>

ArrParse ==
    /\ result = NoResult
    /\ gen # <<>>
    /\ result' = ParseArray(input)
    /\ UNCHANGED <<arrVars, stored, aliasVars, obj, firstSet, lastOp, src, policy, encoded, gen, input>>

NextParseArr == ArrAddElement \/ ArrParse

SpecParseArr == InitParse /\ [][NextParseArr]_vars

(***************************************************************************)
(* SpecParseDoc: ParseObject/ParseArray applied to documents assembled     *)
(* from items (values, some of them malformed) and an optional comma,      *)
(* with or without whitespace, before the closing bracket.                 *)
(***************************************************************************)
\* 1, {}, {"k":1}, [], {"k":1,}, x, {"k":x}, [x]
ItemText == [num |-> <<49>>,
             empty |-> <<123, 125>>,
             nested |-> <<123, 34, 107, 34, 58, 49, 125>>,
             arr |-> <<91, 93>>,
             nestedtrail |-> <<123, 34, 107, 34, 58, 49, 44, 125>>,
             bad |-> <<120>>,
             nestedbad |-> <<123, 34, 107, 34, 58, 120, 125>>,
             arrbad |-> <<91, 120, 93>>]

\* nothing, a comma, a comma and a space, a comma and a newline
TrailText == [none |-> <<>>,
              comma |-> <<44>>,
              commaspace |-> <<44, 32>>,
              commalf |-> <<44, 10>>]

\* the i-th member is named "a", "b", ...
DocItem(kind, items, i) ==
    IF kind = "array" THEN ItemText[items[i]]
    ELSE <<Rune.quote, 96 + i, Rune.quote, Rune.colon>> \o ItemText[items[i]]

DocText(doc) ==
    <<IF doc.kind = "array" THEN Rune.lbracket ELSE Rune.lbrace>>
    \o Join([i \in 1..Len(doc.items) |-> DocItem(doc.kind, doc.items, i)])
    \o TrailText[doc.trail]
    \o <<IF doc.kind = "array" THEN Rune.rbracket ELSE Rune.rbrace>>

InitParseDoc ==
    /\ IdleObject /\ IdleArray /\ IdleAlias /\ IdleEncode
    /\ gen \in [kind : {"object", "array"}, items : {<<>>}, trail : DOMAIN TrailText]
    /\ input = DocText(gen)
    /\ result = NoResult

DocAddItem ==
    /\ result = NoResult
    /\ Len(gen.items) < MaxItems
    /\ \E item \in DOMAIN ItemText : gen' = [gen EXCEPT !.items = Append(@, item)]
    /\ input' = DocText(gen')
    /\ UNCHANGED <<arrVars, stored, aliasVars, obj, firstSet, lastOp, src, policy, encoded, result>>

DocParseObject ==
    /\ result = NoResult
    /\ gen.kind = "object"
    /\ result' = ParseObject(input)
    /\ UNCHANGED <<arrVars, stored, aliasVars, obj, firstSet, lastOp, src, policy, encoded, gen, input>>

DocParseArray ==
    /\ result = NoResult
    /\ gen.kind = "array"
    /\ result' = ParseArray(input)
    /\ UNCHANGED <<arrVars, stored, aliasVars, obj, firstSet, lastOp, src, policy, encoded, gen, input>>

NextParseDoc == DocAddItem \/ DocParseObject \/ DocParseArray

SpecParseDoc == InitParseDoc /\ [][NextParseDoc]_vars

(***************************************************************************)
(* SpecParsePad: ParseObject/ParseArray applied to a well-formed text with *)
(* a run of runes, whitespace or not, put before it, between its tokens or *)
(* after it.                                                               *)
(***************************************************************************)
\* space, tab, CR, LF, and VT, FF, NBSP, 'x'
PadRunes == WhitespaceRunes \cup {11, 12, 160, 120}

\* the tokens of {}, [] and {"a":1}
BodyTokens == [object |-> <<(<<123>>), (<<125>>)>>,
               array |-> <<(<<91>>), (<<93>>)>>,
               member |-> <<(<<123>>), (<<34, 97, 34>>), (<<58>>), (<<49>>), (<<125>>)>>]

\* the tokens q with pad between neighbours
RECURSIVE JoinWith(_, _)
JoinWith(q, pad) ==
    IF Len(q) = 1 THEN q[1]
    ELSE q[1] \o pad \o JoinWith(Tail(q), pad)

PadText(p) ==
    IF p.where = "lead" THEN p.pad \o Flatten(BodyTokens[p.body])
    ELSE IF p.where = "tail" THEN Flatten(BodyTokens[p.body]) \o p.pad
    ELSE JoinWith(BodyTokens[p.body], p.pad)

InitParsePad ==
    /\ IdleObject /\ IdleArray /\ IdleAlias /\ IdleEncode
    /\ gen \in [body : DOMAIN BodyTokens, where : {"lead", "inner", "tail"}, pad : {<<>>}]
    /\ input = PadText(gen)
    /\ result = NoResult

PadAppend ==
    /\ result = NoResult
    /\ Len(gen.pad) < MaxPad
    /\ \E r \in PadRunes : gen' = [gen EXCEPT !.pad = Append(@, r)]
    /\ input' = PadText(gen')
    /\ UNCHANGED <<arrVars, stored, aliasVars, obj, firstSet, lastOp, src, policy, encoded, result>>

PadParseObject ==
    /\ result = NoResult
    /\ gen.body # "array"
    /\ result' = ParseObject(input)
    /\ UNCHANGED <<arrVars, stored, aliasVars, obj, firstSet, lastOp, src, policy, encoded, gen, input>>

PadParseArray ==
    /\ result = NoResult
    /\ gen.body = "array"
    /\ result' = ParseArray(input)
    /\ UNCHANGED <<arrVars, stored, aliasVars, obj, firstSet, lastOp, src, policy, encoded, gen, input>>

NextParsePad == PadAppend \/ PadParseObject \/ PadParseArray

SpecParsePad == InitParsePad /\ [][NextParsePad]_vars

(***************************************************************************)
(* SpecParseStr: parseString applied to string literals assembled from     *)
(* escapes and raw characters.                                             *)
(***************************************************************************)
\* \uD834, \uDBFF (high surrogates), \uDD1E, \uDC00 (low surrogates),
\* a, a raw 'a', the shorthand escape \n
StrTokText == [hi |-> <<92, 117, 68, 56, 51, 52>>,
               hi2 |-> <<92, 117, 68, 66, 70, 70>>,
               lo |-> <<92, 117, 68, 68, 49, 69>>,
               lo2 |-> <<92, 117, 68, 67, 48, 48>>,
               bmp |-> <<92, 117, 48, 48, 54, 49>>,
               raw |-> <<97>>,
               short |-> <<92, 110>>]

StrText(toks) ==
    <<Rune.quote>> \o Flatten([i \in 1..Len(toks) |-> StrTokText[toks[i]]])
    \o <<Rune.quote>>

StrAddToken ==
    /\ result = NoResult
    /\ Len(gen) < MaxStrToks
    /\ \E tok \in DOMAIN StrTokText : gen' = Append(gen, tok)
    /\ input' = StrText(gen')
    /\ UNCHANGED <<arrVars, stored, aliasVars, obj, firstSet, lastOp, src, policy, encoded, result>>

StrParse ==
    /\ result = NoResult
    /\ gen # <<>>
    /\ result' = parseString(input, 0)
    /\ UNCHANGED <<arrVars, stored, aliasVars, obj, firstSet, lastOp, src, policy, encoded, gen, input>>

NextParseStr == StrAddToken \/ StrParse

SpecParseStr == InitParse /\ [][NextParseStr]_vars

(***************************************************************************)
(* Properties                                                              *)
(***************************************************************************)
\* structural equality of two values: same keys in the same order, same
\* kinds, same values (whether the Go maps are nil or empty is not compared)
RECURSIVE SameObject(_, _), SameArray(_, _)
SameObject(x, y) ==
    /\ x.keys = y.keys
    /\ x.strings = y.strings /\ x.numbers = y.numbers /\ x.bools = y.bools
    /\ DOMAIN x.nulls = DOMAIN y.nulls
    /\ DOMAIN x.objects = DOMAIN y.objects
    /\ DOMAIN x.arrays = DOMAIN y.arrays
    /\ \A k \in DOMAIN x.objects : SameObject(x.objects[k], y.objects[k])
    /\ \A k \in DOMAIN x.arrays : SameArray(x.arrays[k], y.arrays[k])

SameArray(x, y) ==
    /\ x.length = y.length
    /\ x.strings = y.strings /\ x.numbers = y.numbers /\ x.bools = y.bools
    /\ DOMAIN x.nulls = DOMAIN y.nulls
    /\ DOMAIN x.objects = DOMAIN y.objects
    /\ DOMAIN x.arrays = DOMAIN y.arrays
    /\ \A k \in DOMAIN x.objects : SameObject(x.objects[k], y.objects[k])
    /\ \A k \in DOMAIN x.arrays : SameArray(x.arrays[k], y.arrays[k])

\* C1: round trip.  An Object built through Set* calls and serialized with
\* String under the minimal policy parses back, with ParseObject, to a
\* structurally equal Object.
C1_RoundTrip ==
    LET reparsed == ParseObject(ObjectString(obj, MinimalStringCharacterEscapingBehavior))
    IN reparsed.st = "ok" /\ SameObject(reparsed.val, obj)

\* the index of the quote that closes the string literal opened before index i
RECURSIVE LiteralEnd(_, _)
LiteralEnd(text, i) ==
    IF i > Len(text) THEN Len(text)
    ELSE IF text[i] = Rune.backslash THEN LiteralEnd(text, i + 2)
    ELSE IF text[i] = Rune.quote THEN i
    ELSE LiteralEnd(text, i + 1)

\* the member names of the outermost object of a JSON text, as written
\* (quotes and escapes included), in the order they appear
RECURSIVE TopLevelNames(_, _, _, _)
TopLevelNames(text, i, depth, names) ==
    IF i > Len(text) THEN names
    ELSE IF text[i] = Rune.quote
    THEN LET end == LiteralEnd(text, i + 1)
         IN TopLevelNames(text, end + 1, depth,
                IF depth = 1 /\ end < Len(text) /\ text[end + 1] = Rune.colon
                THEN Append(names, SubSeq(text, i, end)) ELSE names)
    ELSE IF text[i] \in {Rune.lbrace, Rune.lbracket}
    THEN TopLevelNames(text, i + 1, depth + 1, names)
    ELSE IF text[i] \in {Rune.rbrace, Rune.rbracket}
    THEN TopLevelNames(text, i + 1, depth - 1, names)
    ELSE TopLevelNames(text, i + 1, depth, names)

\* C2: order preservation.  Under every policy, the members of the
\* serialized Object appear in the order in which each key was first set,
\* whatever was re-set since.
C2_OrderPreserved ==
    \A behavior \in Behaviors :
        TopLevelNames(ObjectString(obj, behavior), 1, 0, <<>>)
            = [i \in 1..Len(firstSet) |-> encodeString(firstSet[i], behavior)]

\* C2 witness: the first of MaxKeys keys was just re-set with another kind
C2_Witness ==
    /\ Len(firstSet) = MaxKeys
    /\ lastOp.key = firstSet[1]
    /\ lastOp.replaced = "other"

\* the generated object text has two members of one object with the same
\* resolved name
HasDuplicate(members) ==
    \/ \E i, j \in 1..Len(members) :
          i < j /\ NameResolved[members[i].name] = NameResolved[members[j].name]
    \/ \E i \in 1..Len(members) : members[i].value = "nesteddup"

\* C3: duplicate rejection.  ParseObject of a text with two members of the
\* same object that have the same resolved name fails with the
\* duplicate-member error; a text without such a pair never gets that error.
C3_DuplicateRejected ==
    result.st # "none" =>
        IF HasDuplicate(gen)
        THEN result.st = "err" /\ result.err = "duplicate member name"
        ELSE result.err # "duplicate member name"

\* C4: number fidelity.  When {"x":<literal>} parses, GetNumber("x") is the
\* literal rune for rune, and String() writes the same runes.
C4_NumberFidelity ==
    result.st = "ok" =>
        /\ GetNumber(result.val, NumKey) = [value |-> gen, err |-> ""]
        /\ \A behavior \in Behaviors :
              ObjectString(result.val, behavior)
                  = <<Rune.lbrace>> \o encodeString(NumKey, behavior)
                    \o <<Rune.colon>> \o gen \o <<Rune.rbrace>>

\* C4 witness: {"x":1.50} was parsed
C4_Witness == result.st = "ok" /\ gen = <<49, 46, 53, 48>>

\* what the i-th element of a parsed array must be for the element text el
ElementIs(array, i, el) ==
    CASE el = "str" -> ArrayGetString(array, i) = [value |-> <<97>>, err |-> ""]
      [] el = "num" -> ArrayGetNumber(array, i) = [value |-> <<49>>, err |-> ""]
      [] el = "true" -> ArrayGetBool(array, i) = [value |-> TRUE, err |-> ""]
      [] el = "false" -> ArrayGetBool(array, i) = [value |-> FALSE, err |-> ""]
      [] el = "null" -> i \in DOMAIN array.nulls
      [] el = "obj" -> i \in DOMAIN array.objects /\ SameObject(array.objects[i], NewObject)
      [] el = "arr" -> i \in DOMAIN array.arrays /\ SameArray(array.arrays[i], NewArray)

\* C5: ParseArray of a well-formed array text returns, without faulting, an
\* Array with one element per element of the text, each of the kind and
\* value written, in source order.
C5_ParseArrayElements ==
    result.st # "none" =>
        /\ result.st = "ok"
        /\ ArrayLength(result.val) = Len(gen)
        /\ \A i \in 1..Len(gen) : ElementIs(result.val, i - 1, gen[i])

\* C6: a member value that starts with a digit or with '-' is parsed as a
\* number: {"x":1}, {"x":-1}, {"x":-0} and {"x":-1.5} parse and
\* GetNumber("x") is the literal.
C6_MinusStartsNumber ==
    (result.st # "none"
     /\ gen \in {<<49>>, <<45, 49>>, <<45, 48>>, <<45, 49, 46, 53>>}) =>
        /\ result.st = "ok"
        /\ GetNumber(result.val, NumKey) = [value |-> gen, err |-> ""]

StrTokKind ==
    [hi |-> "high", hi2 |-> "high", lo |-> "low", lo2 |-> "low",
     bmp |-> "plain", raw |-> "plain", short |-> "plain"]

\* the UTF-16 code unit or the character a piece of a string literal denotes
StrTokUnit ==
    [hi |-> 55348, hi2 |-> 56319, lo |-> 56606, lo2 |-> 56320,
     bmp |-> 97, raw |-> 97, short |-> 10]

\* every high surrogate is directly followed by a low one, and every low
\* surrogate directly follows a high one
WellPaired(toks) ==
    \A i \in 1..Len(toks) :
        /\ StrTokKind[toks[i]] = "high" =>
              (i < Len(toks) /\ StrTokKind[toks[i + 1]] = "low")
        /\ StrTokKind[toks[i]] = "low" =>
              (i > 1 /\ StrTokKind[toks[i - 1]] = "high")

\* some high surrogate is followed by the closing quote, a raw character, a
\* shorthand escape or a \u escape that is not a low surrogate
HighUnpaired(toks) ==
    \E i \in 1..Len(toks) :
        /\ StrTokKind[toks[i]] = "high"
        /\ (i = Len(toks) \/ StrTokKind[toks[i + 1]] # "low")

\* the code points a well-paired literal denotes
RECURSIVE Denoted(_)
Denoted(toks) ==
    IF toks = <<>> THEN <<>>
    ELSE IF StrTokKind[toks[1]] = "high"
    THEN <<65536 + ((StrTokUnit[toks[1]] - 55296) * 1024) + (StrTokUnit[toks[2]] - 56320)>>
         \o Denoted(Tail(Tail(toks)))
    ELSE <<StrTokUnit[toks[1]]>> \o Denoted(Tail(toks))

\* C7: surrogate pairs.  parseString turns a high surrogate escape directly
\* followed by a low surrogate escape into the one combined code point
\* (𝄞 is U+1D11E), and returns an error when a pending high
\* surrogate is followed by anything else.
C7_SurrogatePairs ==
    result.st # "none" =>
        /\ WellPaired(gen) => (result.st = "ok" /\ result.val = Denoted(gen))
        /\ gen = <<"hi", "lo">> => result.val = <<119070>>
        /\ HighUnpaired(gen) => result.st = "err"

\* C7 witness: "𝄞" followed by a raw character was parsed
C7_Witness == result.st = "ok" /\ gen = <<"hi", "lo", "raw">>

\* a character that needs no escaping: at or above U+0020, not '"', not '\'
Ordinary(r) == r >= 32 /\ r # Rune.quote /\ r # Rune.backslash

\* C8: under the minimal policy a string of characters that need no
\* escaping is written as itself between the quotes.
C8_MinimalWritesDirectly ==
    (encoded # <<>> /\ policy = MinimalStringCharacterEscapingBehavior
     /\ \A i \in 1..Len(src) : Ordinary(src[i])) =>
        encoded = <<Rune.quote>> \o src \o <<Rune.quote>>

\* C9: under the minimal policy a string of '"' and newline characters is
\* written with the two-character escapes \" and \n.
C9_MinimalUsesShorthand ==
    (encoded # <<>> /\ policy = MinimalStringCharacterEscapingBehavior
     /\ \A i \in 1..Len(src) : src[i] \in {Rune.quote, Rune.lf}) =>
        encoded = <<Rune.quote>>
                  \o Flatten([i \in 1..Len(src) |->
                        IF src[i] = Rune.quote THEN <<92, 34>> ELSE <<92, 110>>])
                  \o <<Rune.quote>>

\* where the escape of src[i] starts in the output of a policy that escapes
\* everything: after the opening quote and 6 runes per character before it,
\* 12 for a character above U+FFFF
RECURSIVE EscapeStart(_, _)
EscapeStart(s, i) ==
    IF i = 1 THEN 2
    ELSE EscapeStart(s, i - 1) + (IF s[i - 1] > 65535 THEN 12 ELSE 6)

\* C10: under a policy whose two predicates return false, every '"' is
\* written " and every newline \u000a, and no backslash in the output
\* starts anything but a \u escape.
C10_NoShorthandUsesHex ==
    (encoded # <<>> /\ policy = NoShorthandBehavior) =>
        /\ \A i \in 1..Len(src) :
              /\ src[i] = Rune.quote =>
                    SubSeq(encoded, EscapeStart(src, i), EscapeStart(src, i) + 5)
                        = <<92, 117, 48, 48, 50, 50>>
              /\ src[i] = Rune.lf =>
                    SubSeq(encoded, EscapeStart(src, i), EscapeStart(src, i) + 5)
                        = <<92, 117, 48, 48, 48, 97>>
        /\ \A j \in 1..Len(encoded) :
              encoded[j] = Rune.backslash => (j < Len(encoded) /\ encoded[j + 1] = Rune.u)

\* C10 witness: a string with a '"' and a newline was encoded under that policy
C10_Witness ==
    /\ policy = NoShorthandBehavior
    /\ src = <<Rune.quote, Rune.lf>>
    /\ encoded # <<>>

\* the kind maps of a container
KindMaps == {"strings", "numbers", "bools", "nulls", "objects", "arrays"}

\* the kinds a container holds at a slot: one per kind map that has it
Slot(container, slot) == {k \in KindMaps : slot \in DOMAIN container[k]}

\* the slot holds exactly this kind and value
Holds(container, slot, kind, value) ==
    Slot(container, slot) = {kind} /\ container[kind][slot] = value

\* two containers hold the same kinds and values at the slot
SameSlot(x, y, slot) ==
    /\ Slot(x, slot) = Slot(y, slot)
    /\ \A k \in Slot(x, slot) : x[k][slot] = y[k][slot]

\* C11: an Array Set* call with index >= Length() panics and leaves the
\* array (its length and every element) as it was
C11_OutOfBoundsWrite ==
    [][(arrOp'.op = "set" /\ arrOp'.index >= arr.length)
           => (arrOp'.fault /\ arr' = arr)]_vars

\* C11 witness: a Set* at an index past the end of a non-empty array panicked
C11_Witness ==
    /\ arrOp.op = "set" /\ arrOp.fault
    /\ arr.length > 0 /\ arrOp.index > arr.length

\* C12: a Set* call with a negative index panics, and no element is ever
\* stored at an index outside [0, Length())
C12_NoNegativeIndex ==
    /\ (arrOp.op = "set" /\ arrOp.index < 0) => arrOp.fault
    /\ \A k \in KindMaps : DOMAIN arr[k] \subseteq 0..(arr.length - 1)

\* every index in [0, Length()) holds exactly one value of exactly one kind
Dense(array) ==
    \A i \in 0..(array.length - 1) : Cardinality(Slot(array, i)) = 1

\* the call stored its kind and value at index and touched no other index
StoredAt(index) ==
    /\ ~arrOp'.fault
    /\ Holds(arr', index, arrStored'[index].kind, arrStored'[index].value)
    /\ \A i \in Indexes \ {index} : SameSlot(arr', arr, i)

\* C13: the array stays dense; Add* stores at index Length() and adds one to
\* Length(); an in-range Set* replaces the kind and value at its index and
\* leaves Length() and every other index alone
C13_Density ==
    [][/\ Dense(arr')
       /\ arrOp'.op = "add"
            => (arrOp'.index = arr.length /\ StoredAt(arr.length)
                /\ arr'.length = arr.length + 1)
       /\ (arrOp'.op = "set" /\ arrOp'.index \in 0..(arr.length - 1))
            => (StoredAt(arrOp'.index) /\ arr'.length = arr.length)]_vars

\* C13 witness: an in-range Set* put a null at index 0 of an array of two
\* elements whose other element is a string
C13_Witness ==
    /\ arrOp.op = "set" /\ arrOp.index = 0 /\ ~arrOp.fault
    /\ arr.length = 2
    /\ 0 \in DOMAIN arr.nulls /\ 1 \in DOMAIN arr.strings

\* what Get<K> must return given the history of stores: the last value stored
\* at the slot when that store was of kind K, else the zero value and an error
Expected(history, slot, kind, zero) ==
    IF slot \in DOMAIN history /\ history[slot].kind = kind
    THEN [value |-> history[slot].value, err |-> ""]
    ELSE [value |-> zero, err |-> "no matching member"]

\* C14: Get<K>(slot) returns the value most recently stored at the slot when
\* that store was of kind K, and the error "no matching member" when the slot
\* was never set or was last set with another kind
C14_TypedLookup ==
    /\ \A key \in Keys :
        /\ GetString(obj, key) = Expected(stored, key, "strings", <<>>)
        /\ GetNumber(obj, key) = Expected(stored, key, "numbers", <<>>)
        /\ GetBool(obj, key) = Expected(stored, key, "bools", FALSE)
        /\ GetJSONObject(obj, key) = Expected(stored, key, "objects", ObjectZero)
        /\ GetJSONArray(obj, key) = Expected(stored, key, "arrays", ArrayZero)
    /\ \A index \in Indexes :
        /\ ArrayGetString(arr, index) = Expected(arrStored, index, "strings", <<>>)
        /\ ArrayGetNumber(arr, index) = Expected(arrStored, index, "numbers", <<>>)
        /\ ArrayGetBool(arr, index) = Expected(arrStored, index, "bools", FALSE)
        /\ ArrayGetJSONObject(arr, index) = Expected(arrStored, index, "objects", ObjectZero)
        /\ ArrayGetJSONArray(arr, index) = Expected(arrStored, index, "arrays", ArrayZero)

\* C14 witness: a key that held another kind was set to a number, and
\* GetString of it fails while GetNumber returns the number
C14_Witness ==
    /\ lastOp.replaced = "other"
    /\ stored[lastOp.key].kind = "numbers"
    /\ GetString(obj, lastOp.key).err = "no matching member"
    /\ GetNumber(obj, lastOp.key) = [value |-> stored[lastOp.key].value, err |-> ""]

\* the state of a slot by the history of stores
SlotState(history, slot) ==
    IF slot \notin DOMAIN history THEN "absent"
    ELSE IF history[slot].kind = "nulls" THEN "null"
    ELSE "non-null"

\* what the two null queries report for a slot
ObjectNullQueries(object, key) == <<IsNull(object, key), ExistsAndIsNull(object, key)>>

ArrayNullQueries(array, index) ==
    <<ArrayIsNull(array, index), ArrayExistsAndIsNull(array, index)>>

\* C15: IsNull and ExistsAndIsNull together tell apart an absent slot, a null
\* slot and a non-null slot: slots in different states get different results
C15_NullQueries ==
    /\ \A k1, k2 \in Keys :
        ObjectNullQueries(obj, k1) = ObjectNullQueries(obj, k2)
            => SlotState(stored, k1) = SlotState(stored, k2)
    /\ \A i1, i2 \in Indexes :
        ArrayNullQueries(arr, i1) = ArrayNullQueries(arr, i2)
            => SlotState(arrStored, i1) = SlotState(arrStored, i2)

\* C16: a container nothing was added to serializes to exactly {} or []:
\* a fresh Object or Array, one parsed from an empty text, and a builder on
\* which Done is called before any Add*; and the empty text parses
C16_EmptyContainers ==
    /\ result.st \in {"none", "ok"}
    /\ encoded # <<>> =>
        encoded = IF gen.source \in {"NewObject", "ParseObject", "ObjectBuilder"}
                  THEN <<Rune.lbrace, Rune.rbrace>>
                  ELSE <<Rune.lbracket, Rune.rbracket>>

\* C16 witness: an array parsed from [] with whitespace around the brackets
\* was serialized
C16_Witness ==
    /\ gen.source = "ParseArray" /\ Len(gen.pad) = MaxPad
    /\ result.st = "ok" /\ arr = result.val
    /\ encoded # <<>>

\* the generated document has a ',' followed, after optional whitespace, by
\* a closing bracket
HasTrailingComma(doc) ==
    \/ doc.trail # "none"
    \/ \E i \in 1..Len(doc.items) : doc.items[i] = "nestedtrail"

\* C17: ParseObject and ParseArray return an error for a document in which
\* a ',' is followed, after optional whitespace, by the closing '}' or ']'
C17_NoTrailingComma ==
    (result.st # "none" /\ HasTrailingComma(gen)) => result.st = "err"

\* the generated document holds a malformed value, at the top level or nested
HasBadValue(doc) ==
    \E i \in 1..Len(doc.items) : doc.items[i] \in {"bad", "nestedbad", "arrbad"}

\* C20: a document with an error anywhere makes ParseObject/ParseArray
\* return an error; whenever the call does not succeed what it returns is the
\* empty zero value, never the members parsed before the error
C20_AllOrNothing ==
    /\ (result.st # "none" /\ HasBadValue(gen)) => result.st = "err"
    /\ result.st \in {"err", "panic"} =>
           result.val = IF gen.kind = "array" THEN ArrayZero ELSE ObjectZero

\* the four JSON whitespace characters: space, tab, CR, LF
JSONWhitespace == {32, 9, 13, 10}

\* C18: a well-formed text with runes put before it, between its tokens or
\* after its closing bracket parses exactly when every one of those runes is
\* a space, tab, CR or LF; any other rune there makes the parse fail
C18_TrailingData ==
    result.st # "none" =>
        (result.st = "ok" <=> \A i \in 1..Len(gen.pad) : gen.pad[i] \in JSONWhitespace)

\* C18 witness: a form feed after the closing bracket made the parse fail
C18_Witness ==
    /\ gen.where = "tail" /\ gen.body = "member"
    /\ gen.pad = <<Rune.space, Rune.ff>>
    /\ result.st = "err" /\ result.err = "unexpected character"

\* C19: once a value is stored in a container, setting members on the
\* caller's copy of it, or on the copy GetJSONObject returned, changes
\* neither what the container holds for the nested value nor what the
\* container serializes
C19_NoSharedSubstructure ==
    snapshot.shared => Report(heap, handles.c) = snapshot

(***************************************************************************)
(* SpecParseLoop: the loops of the parser, one pass through a loop body    *)
(* per step.  gen names the loop and the pieces of the input that is left  *)
(* in front of the reader, result is what the last pass gave.              *)
(***************************************************************************)
Loops == {"skipWhitespace", "parseEnd", "parseString", "extractNumber",
          "extractNumberExponent", "extractIdentifier", "parseEmbeddedObject",
          "parseEmbeddedArray"}

LoopTokText == [sp |-> <<32>>, lf |-> <<10>>, x |-> <<120>>, bad |-> <<65533>>,
                quote |-> <<34>>, raw |-> <<97>>, short |-> <<92, 110>>,
                hi |-> <<92, 117, 68, 56, 51, 52>>,
                lo |-> <<92, 117, 68, 68, 49, 69>>,
                d0 |-> <<48>>, d1 |-> <<49>>, dot |-> <<46>>,
                t |-> <<116>>,
                num |-> <<34, 97, 34, 58, 49>>,
                str |-> <<34, 98, 34, 58, 34, 120, 34>>,
                obj |-> <<34, 99, 34, 58, 123, 125>>,
                comma |-> <<44>>, rbrace |-> <<125>>, rbracket |-> <<93>>,
                elem |-> <<34, 120, 34>>, nested |-> <<91, 93>>]

LoopTokens(loop) ==
    CASE loop \in {"skipWhitespace", "parseEnd"} -> {"sp", "lf", "x", "bad"}
      [] loop = "parseString" -> {"quote", "raw", "short", "hi", "lo", "lf"}
      [] loop \in {"extractNumber", "extractNumberExponent"} ->
             {"d0", "d1", "dot", "bad"}
      [] loop = "extractIdentifier" -> {"t", "d1", "sp", "bad"}
      [] loop = "parseEmbeddedObject" -> {"num", "str", "obj", "comma", "rbrace", "sp"}
      [] loop = "parseEmbeddedArray" -> {"elem", "nested", "comma", "rbracket", "sp"}

LoopText(toks) == Flatten([i \in 1..Len(toks) |-> LoopTokText[toks[i]]])

\* the locals of each loop when it is entered
LoopLocals(loop) ==
    CASE loop = "parseString" -> [b |-> <<>>, prevHex |-> 0]
      [] loop = "parseEmbeddedObject" -> NewObject
      [] loop = "parseEmbeddedArray" -> parsedArrayStart
      [] OTHER -> <<>>

InitParseLoop ==
    /\ IdleObject /\ IdleArray /\ IdleAlias /\ IdleEncode
    /\ gen \in [loop : Loops, toks : {<<>>}]
    /\ input = <<>>
    /\ result = NoResult

LoopAddToken ==
    /\ result = NoResult
    /\ Len(gen.toks) < MaxLoopToks
    /\ \E tok \in LoopTokens(gen.loop) : gen' = [gen EXCEPT !.toks = Append(@, tok)]
    /\ input' = LoopText(gen'.toks)
    /\ UNCHANGED <<arrVars, stored, aliasVars, obj, firstSet, lastOp, src, policy, encoded, result>>

LoopEnter ==
    /\ result = NoResult
    /\ result' = Again(0, LoopLocals(gen.loop))
    /\ UNCHANGED <<arrVars, stored, aliasVars, obj, firstSet, lastOp, src, policy, encoded, gen, input>>

\* one more pass through the body of the running loop
LoopPass(loop, next) ==
    /\ gen.loop = loop
    /\ result.st = "again"
    /\ result' = next
    /\ UNCHANGED <<arrVars, stored, aliasVars, obj, firstSet, lastOp, src, policy, encoded, gen, input>>

StepSkipWhitespace ==
    LoopPass("skipWhitespace", skipWhitespaceIter(input, result.pos))

StepParseEnd == LoopPass("parseEnd", parseEndIter(input, result.pos))

StepParseString ==
    LoopPass("parseString",
             parseStringIter(input, result.pos, result.val.b, result.val.prevHex))

StepNumberDigits ==
    LoopPass("extractNumber",
             numberDigitsIter(input, result.pos, result.val, "invalid character encoding"))

StepExponentDigits ==
    LoopPass("extractNumberExponent", exponentDigitsIter(input, result.pos, result.val))

StepIdentifier ==
    LoopPass("extractIdentifier", identifierIter(input, result.pos, result.val))

StepObject == LoopPass("parseEmbeddedObject", objectIter(input, result.pos, result.val))

StepArray == LoopPass("parseEmbeddedArray", arrayIter(input, result.pos, result.val))

LoopStep ==
    \/ StepSkipWhitespace \/ StepParseEnd \/ StepParseString \/ StepNumberDigits
    \/ StepExponentDigits \/ StepIdentifier \/ StepObject \/ StepArray

NextParseLoop == LoopAddToken \/ LoopEnter \/ LoopStep

\* a loop that was entered keeps running: its next pass is taken
SpecParseLoop == InitParseLoop /\ [][NextParseLoop]_vars /\ WF_vars(LoopStep)

(***************************************************************************)
(* C21                                                                     *)
(***************************************************************************)
\* every pass through a loop body either leaves the loop or moves the reader
\* forward by at least one rune
LoopProgress ==
    [][(result.st = "again" /\ result'.st = "again") => result'.pos > result.pos]_vars

\* every loop that is entered is left
LoopsExit == (result.st = "again") ~> (result.st # "again")

\* C21: every pass through the body of a parser loop either consumes at
\* least one rune or leaves the loop, and every loop that is entered ends
\* with a value or an error
C21_Termination ==
    /\ LoopProgress
    /\ (result.st = "again") ~> (result.st \in {"ok", "err"})

(***************************************************************************)
(* C23                                                                     *)
(***************************************************************************)
\* how many of t's runes from index i on are decimal digits in a row
RECURSIVE DigitRun(_, _)
DigitRun(t, i) ==
    IF i <= Len(t) /\ t[i] \in Rune.zero..Rune.nine THEN 1 + DigitRun(t, i + 1) ELSE 0

\* t matches -?(0|[1-9][0-9]*)(\.[0-9]+)?([eE][+-]?[0-9]+)?
IsNumberLiteral(t) ==
    LET int == IF t # <<>> /\ t[1] = Rune.minus THEN 2 ELSE 1
        frac == IF int <= Len(t) /\ t[int] = Rune.zero THEN int + 1
                ELSE int + DigitRun(t, int)
        exp == IF frac <= Len(t) /\ t[frac] = Rune.dot
               THEN frac + 1 + DigitRun(t, frac + 1)
               ELSE frac
        sign == IF exp + 1 <= Len(t) /\ t[exp + 1] \in {Rune.plus, Rune.minus}
                THEN exp + 2 ELSE exp + 1
        end == IF exp <= Len(t) /\ t[exp] \in {Rune.e, Rune.upE}
               THEN sign + DigitRun(t, sign)
               ELSE exp
    IN /\ frac > int
       /\ exp # frac + 1
       /\ (end # exp => end > sign)
       /\ end = Len(t) + 1

\* C23: {"x":<literal>} parses exactly when the literal matches
\* -?(0|[1-9][0-9]*)(\.[0-9]+)?([eE][+-]?[0-9]+)? ; a '.' without a digit
\* after it, an exponent marker without digits and a leading zero followed
\* by digits make the parse fail
C23_NumberGrammar ==
    result.st # "none" => (result.st = "ok" <=> IsNumberLiteral(gen))

\* the half of C23 that does not depend on how a '-' is dispatched: what
\* parses matches the grammar
C23_AcceptedMatches == result.st = "ok" => IsNumberLiteral(gen)

(***************************************************************************)
(* SpecParseBad: a well-formed text with U+FFFD put in front of some of    *)
(* its runes (or after the last) is parsed.  gen.ins lists the indexes.    *)
(***************************************************************************)
BadBodies ==
    [str |-> <<123, 34, 97, 34, 58, 34, 98, 34, 125>>,
     num |-> <<123, 34, 97, 34, 58, 49, 125>>,
     lit |-> <<123, 34, 97, 34, 58, 116, 114, 117, 101, 125>>,
     esc |-> <<123, 34, 97, 34, 58, 34, 92, 110, 34, 125>>,
     nest |-> <<123, 32, 34, 97, 34, 32, 58, 32, 123, 125, 32, 44,
                34, 98, 34, 58, 91, 93, 32, 125, 32>>,
     arr |-> <<91, 93>>,
     arrsp |-> <<32, 91, 32, 93, 32>>]

BadIsArray(body) == body \in {"arr", "arrsp"}

\* text with U+FFFD put in front of the rune at each index of ins (an index
\* past the end puts it after the last rune); ins is increasing
RECURSIVE BadText(_, _, _)
BadText(text, ins, from) ==
    IF ins = <<>> THEN SubSeq(text, from, Len(text))
    ELSE SubSeq(text, from, Head(ins) - 1) \o <<Rune.replacement>>
         \o BadText(text, Tail(ins), Head(ins))

InitParseBad ==
    /\ IdleObject /\ IdleArray /\ IdleAlias /\ IdleEncode
    /\ gen \in [body : DOMAIN BadBodies, ins : {<<>>}]
    /\ input = BadBodies[gen.body]
    /\ result = NoResult

BadInsert ==
    /\ result = NoResult
    /\ Len(gen.ins) < MaxBad
    /\ \E at \in 1..(Len(BadBodies[gen.body]) + 1) :
          /\ gen.ins # <<>> => at >= gen.ins[Len(gen.ins)]
          /\ gen' = [gen EXCEPT !.ins = Append(@, at)]
    /\ input' = BadText(BadBodies[gen.body], gen'.ins, 1)
    /\ UNCHANGED <<arrVars, stored, aliasVars, obj, firstSet, lastOp, src, policy, encoded, result>>

BadParseObject ==
    /\ result = NoResult
    /\ ~BadIsArray(gen.body)
    /\ result' = ParseObject(input)
    /\ UNCHANGED <<arrVars, stored, aliasVars, obj, firstSet, lastOp, src, policy, encoded, gen, input>>

BadParseArray ==
    /\ result = NoResult
    /\ BadIsArray(gen.body)
    /\ result' = ParseArray(input)
    /\ UNCHANGED <<arrVars, stored, aliasVars, obj, firstSet, lastOp, src, policy, encoded, gen, input>>

NextParseBad == BadInsert \/ BadParseObject \/ BadParseArray

SpecParseBad == InitParseBad /\ [][NextParseBad]_vars

(***************************************************************************)
(* C24                                                                     *)
(***************************************************************************)
\* C24: a text with U+FFFD at any position is rejected: ParseObject and
\* ParseArray return an error for it
C24_SentinelRejected ==
    (result.st # "none" /\ gen.ins # <<>>) => result.st = "err"

\* the texts of SpecParseBad in which U+FFFD is not inside a string literal
\* are rejected
C24_OutsideStrings ==
    (result.st = "ok" /\ gen.ins # <<>>) =>
        \E i \in 1..Len(input) :
            /\ input[i] = Rune.replacement
            /\ Cardinality({j \in 1..(i - 1) : input[j] = Rune.quote}) % 2 = 1

(***************************************************************************)
(* SpecParseEsc: parseString on a quoted literal made of escapes and raw   *)
(* runes                                                                   *)
(***************************************************************************)
EscTokText ==
    [quote |-> <<92, 34>>, backslash |-> <<92, 92>>, slash |-> <<92, 47>>,
     bs |-> <<92, 98>>, ff |-> <<92, 102>>, lf |-> <<92, 110>>,
     cr |-> <<92, 114>>, tab |-> <<92, 116>>,
     uphex |-> <<92, 117, 48, 48, 53, 67>>,
     lowhex |-> <<92, 117, 48, 48, 53, 99>>,
     mixhex |-> <<92, 117, 50, 48, 97, 67>>,
     badx |-> <<92, 120>>, bada |-> <<92, 97>>, badzero |-> <<92, 48>>,
     badU |-> <<92, 85, 48, 48, 53, 67>>,
     rawnul |-> <<0>>, rawlf |-> <<10>>, rawus |-> <<31>>,
     rawspace |-> <<32>>, rawa |-> <<97>>]

EscText(toks) ==
    <<Rune.quote>> \o Flatten([i \in 1..Len(toks) |-> EscTokText[toks[i]]])
    \o <<Rune.quote>>

EscAddToken ==
    /\ result = NoResult
    /\ Len(gen) < MaxEscToks
    /\ \E tok \in DOMAIN EscTokText : gen' = Append(gen, tok)
    /\ input' = EscText(gen')
    /\ UNCHANGED <<arrVars, stored, aliasVars, obj, firstSet, lastOp, src, policy, encoded, result>>

EscParse ==
    /\ result = NoResult
    /\ gen # <<>>
    /\ result' = parseString(input, 0)
    /\ UNCHANGED <<arrVars, stored, aliasVars, obj, firstSet, lastOp, src, policy, encoded, gen, input>>

NextParseEsc == EscAddToken \/ EscParse

SpecParseEsc == InitParse /\ [][NextParseEsc]_vars

(***************************************************************************)
(* C25                                                                     *)
(***************************************************************************)
\* the character a piece of a string literal stands for in JSON; -1 for a
\* backslash followed by another character and for a raw character below
\* U+0020
EscTokChar ==
    [quote |-> 34, backslash |-> 92, slash |-> 47, bs |-> 8, ff |-> 12,
     lf |-> 10, cr |-> 13, tab |-> 9, uphex |-> 92, lowhex |-> 92,
     mixhex |-> 8364, badx |-> -1, bada |-> -1, badzero |-> -1, badU |-> -1,
     rawnul |-> -1, rawlf |-> -1, rawus |-> -1, rawspace |-> 32, rawa |-> 97]

\* C25: parseString maps \" \\ \/ \b \f \n \r \t to their characters and
\* \uXXXX, in upper- or lower-case hex, to its code unit; any other
\* character after a backslash and any raw character below U+0020 inside
\* the string make it return an error
C25_Escapes ==
    result.st # "none" =>
        IF \A i \in 1..Len(gen) : EscTokChar[gen[i]] >= 0
        THEN result = Ok(Len(input), [i \in 1..Len(gen) |-> EscTokChar[gen[i]]])
        ELSE result.st = "err"

\* C25 witness: "\u005c\b" was parsed to a backslash and a backspace
C25_Witness ==
    /\ gen = <<"lowhex", "bs">>
    /\ result = Ok(10, <<92, 8>>)

(***************************************************************************)
(* SpecString: two callers serialize one container.  A call to String is   *)
(* its loop, one key or index per step, with its own builder; the steps of *)
(* the two calls interleave.  gen.calls holds the locals of each call,     *)
(* input the container as it was when the first call started.              *)
(***************************************************************************)
Callers == {1, 2}

IdleCall == [pc |-> "idle", order |-> <<>>, i |-> 0, builder |-> <<>>, text |-> <<>>]

StringContainer == IF gen.kind = "object" THEN obj ELSE arr

NoCallStarted == \A c \in Callers : gen.calls[c].pc = "idle"

InitString ==
    /\ IdleObject /\ IdleArray /\ IdleAlias
    /\ src = <<>> /\ encoded = <<>> /\ result = NoResult
    /\ policy \in Behaviors
    /\ gen \in [kind : {"object", "array"}, calls : {[c \in Callers |-> IdleCall]}]
    /\ input = <<>>

\* the caller fills the object before anyone serializes it
StringSetMember ==
    /\ gen.kind = "object"
    /\ NoCallStarted
    /\ Len(obj.keys) < MaxStringItems
    /\ LET key == <<97 + Len(obj.keys)>>
       IN \/ \E value \in {<<120>>, <<34, 10>>} : obj' = SetString(obj, key, value)
          \/ \E value \in NumberValues : obj' = SetNumber(obj, key, value)
          \/ \E value \in BOOLEAN : obj' = SetBool(obj, key, value)
          \/ obj' = SetNull(obj, key)
          \/ \E value \in ObjectValues : obj' = SetJSONObject(obj, key, value)
          \/ \E value \in ArrayValues : obj' = SetJSONArray(obj, key, value)
    /\ UNCHANGED <<arrVars, stored, aliasVars, firstSet, lastOp, src, policy, encoded, gen, input, result>>

\* the caller fills the array before anyone serializes it
StringAddElement ==
    /\ gen.kind = "array"
    /\ NoCallStarted
    /\ arr.length < MaxStringItems
    /\ \/ \E value \in {<<120>>, <<34, 10>>} : arr' = ArrayAddString(arr, value)
       \/ \E value \in NumberValues : arr' = ArrayAddNumber(arr, value)
       \/ \E value \in BOOLEAN : arr' = ArrayAddBool(arr, value)
       \/ arr' = ArrayAddNull(arr)
       \/ \E value \in ObjectValues : arr' = ArrayAddJSONObject(arr, value)
       \/ \E value \in ArrayValues : arr' = ArrayAddJSONArray(arr, value)
    /\ UNCHANGED <<arrOp, arrStored, stored, aliasVars, obj, firstSet, lastOp, src, policy, encoded, gen, input, result>>

\* String is entered: a new builder, and the loop is about to start
StringCall(c) ==
    /\ gen.calls[c].pc = "idle"
    /\ \E order \in IF gen.kind = "object" THEN objectStringRange(obj)
                   ELSE arrayStringRange(arr) :
          gen' = [gen EXCEPT !.calls[c] =
                     [pc |-> "loop", order |-> order, i |-> 1,
                      builder |-> IF gen.kind = "object" THEN NewObjectBuilder(policy)
                                  ELSE NewArrayBuilder(policy),
                      text |-> <<>>]]
    /\ input' = IF NoCallStarted THEN StringContainer ELSE input
    /\ UNCHANGED <<arrVars, stored, aliasVars, obj, firstSet, lastOp, src, policy, encoded, result>>

\* one pass through the loop of String: the container is read, the call's
\* own builder is written
StringStep(c) ==
    LET call == gen.calls[c]
    IN /\ call.pc = "loop"
       /\ call.i <= Len(call.order)
       /\ gen' = [gen EXCEPT !.calls[c].i = @ + 1,
                             !.calls[c].builder =
                                 IF gen.kind = "object"
                                 THEN objectStringIter(obj, policy, call.order[call.i], @)
                                 ELSE arrayStringIter(arr, policy, call.order[call.i], @)]
       /\ UNCHANGED <<arrVars, stored, aliasVars, obj, firstSet, lastOp, src, policy, encoded, input, result>>

\* `return builder.Done()`
StringReturn(c) ==
    LET call == gen.calls[c]
    IN /\ call.pc = "loop"
       /\ call.i > Len(call.order)
       /\ gen' = [gen EXCEPT !.calls[c].pc = "done",
                             !.calls[c].text =
                                 IF gen.kind = "object" THEN ObjectBuilderDone(call.builder)
                                 ELSE ArrayBuilderDone(call.builder)]
       /\ UNCHANGED <<arrVars, stored, aliasVars, obj, firstSet, lastOp, src, policy, encoded, input, result>>

NextString ==
    \/ StringSetMember
    \/ StringAddElement
    \/ \E c \in Callers : StringCall(c)
    \/ \E c \in Callers : StringStep(c)
    \/ \E c \in Callers : StringReturn(c)

SpecString == InitString /\ [][NextString]_vars

(***************************************************************************)
(* C22                                                                     *)
(***************************************************************************)
\* C22: String(policy) leaves the container, nested values included, as it
\* was, and two calls on the same unmodified container with the same
\* policy, one after the other or interleaved, return the same text
C22_StringReadOnly ==
    /\ ~NoCallStarted => StringContainer = input
    /\ (\A c \in Callers : gen.calls[c].pc = "done") =>
           /\ gen.calls[1].text = gen.calls[2].text
           /\ gen.calls[1].text = IF gen.kind = "object" THEN ObjectString(obj, policy)
                                  ELSE ArrayString(arr, policy)

\* C22 witness: both calls returned the text of an object with a string
\* member that needs escaping and a nested object
C22_Witness ==
    /\ gen.kind = "object"
    /\ policy = NoShorthandBehavior
    /\ obj.keys = <<<<97>>, <<98>>>>
    /\ <<97>> \in DOMAIN obj.strings /\ obj.strings[<<97>>] = <<34, 10>>
    /\ <<98>> \in DOMAIN obj.objects /\ obj.objects[<<98>>].keys = <<<<122>>>>
    /\ \A c \in Callers : gen.calls[c].pc = "done"
    /\ gen.calls[1].text = gen.calls[2].text
    /\ Len(gen.calls[2].text) > 20

\* two calls are inside their loops at once, at different keys
C22_Interleaved ==
    /\ gen.calls[1].pc = "loop" /\ gen.calls[2].pc = "loop"
    /\ gen.calls[1].i = 2 /\ gen.calls[2].i = 1
    /\ Len(gen.calls[1].order) = 2

(***************************************************************************)
(* SpecBuild: Add* calls on an ObjectBuilder or an ArrayBuilder, then      *)
(* Done.  gen.builder is the builder, gen.calls what each call was given:  *)
(* the name and the JSON text the value stands for.                        *)
(***************************************************************************)
BuildNames == {<<97>>, <<34>>}

\* raw values handed to AddJSON: nothing at all, [1,2]
BuildRawValues == {<<>>, <<91, 49, 44, 50, 93>>}

BuildStrings == {<<120, 10>>}

BuildInts == {-1}

\* the JSON number text of each integer used
BuildIntText(value) == <<45, 49>>

InitBuild ==
    /\ IdleObject /\ IdleArray /\ IdleAlias
    /\ src = <<>> /\ encoded = <<>> /\ input = <<>> /\ result = NoResult
    /\ policy \in {MinimalStringCharacterEscapingBehavior, NoShorthandBehavior}
    /\ \/ gen = [kind |-> "object", builder |-> NewObjectBuilder(policy), calls |-> <<>>]
       \/ gen = [kind |-> "array", builder |-> NewArrayBuilder(policy), calls |-> <<>>]

\* an Add* call returned: the builder it left and what it was given
Built(kind, builder, op, name, text) ==
    /\ gen.kind = kind
    /\ result = NoResult
    /\ Len(gen.calls) < MaxBuildCalls
    /\ gen' = [gen EXCEPT !.builder = builder,
                          !.calls = Append(@, [op |-> op, name |-> name, text |-> text])]
    /\ UNCHANGED <<arrVars, stored, aliasVars, obj, firstSet, lastOp, src, policy, encoded, input, result>>

BuildObjectAddJSON ==
    \E name \in BuildNames, value \in BuildRawValues :
        Built("object", ObjectBuilderAddJSON(gen.builder, name, value),
              "AddJSON", name, value)

BuildObjectAddString ==
    \E name \in BuildNames, value \in BuildStrings :
        Built("object", ObjectBuilderAddString(gen.builder, name, value),
              "AddString", name, encodeString(value, policy))

BuildObjectAddInt ==
    \E name \in BuildNames, value \in BuildInts :
        Built("object", ObjectBuilderAddInt(gen.builder, name, value),
              "AddInt", name, BuildIntText(value))

BuildObjectAddInt64 ==
    \E name \in BuildNames, value \in BuildInts :
        Built("object", ObjectBuilderAddInt64(gen.builder, name, value),
              "AddInt64", name, BuildIntText(value))

BuildObjectAddInt32 ==
    \E name \in BuildNames, value \in BuildInts :
        Built("object", ObjectBuilderAddInt32(gen.builder, name, value),
              "AddInt32", name, BuildIntText(value))

BuildObjectAddBool ==
    \E name \in BuildNames, value \in BOOLEAN :
        Built("object", ObjectBuilderAddBool(gen.builder, name, value),
              "AddBool", name, IF value THEN TrueText ELSE FalseText)

BuildObjectAddNull ==
    \E name \in BuildNames :
        Built("object", ObjectBuilderAddNull(gen.builder, name), "AddNull", name, NullText)

BuildArrayAddJSON ==
    \E value \in BuildRawValues :
        Built("array", ArrayBuilderAddJSON(gen.builder, value), "AddJSON", <<>>, value)

BuildArrayAddString ==
    \E value \in BuildStrings :
        Built("array", ArrayBuilderAddString(gen.builder, value),
              "AddString", <<>>, encodeString(value, policy))

BuildArrayAddInt ==
    \E value \in BuildInts :
        Built("array", ArrayBuilderAddInt(gen.builder, value),
              "AddInt", <<>>, BuildIntText(value))

BuildArrayAddInt64 ==
    \E value \in BuildInts :
        Built("array", ArrayBuilderAddInt64(gen.builder, value),
              "AddInt64", <<>>, BuildIntText(value))

BuildArrayAddInt32 ==
    \E value \in BuildInts :
        Built("array", ArrayBuilderAddInt32(gen.builder, <<>>, value),
              "AddInt32", <<>>, BuildIntText(value))

BuildArrayAddBool ==
    \E value \in BOOLEAN :
        Built("array", ArrayBuilderAddBool(gen.builder, value),
              "AddBool", <<>>, IF value THEN TrueText ELSE FalseText)

BuildArrayAddNull ==
    Built("array", ArrayBuilderAddNull(gen.builder), "AddNull", <<>>, NullText)

\* Done: writes the closing bracket to the buffer and returns the buffer
BuildObjectDone ==
    /\ gen.kind = "object"
    /\ result = NoResult
    /\ result' = Ok(0, ObjectBuilderDone(gen.builder))
    /\ gen' = [gen EXCEPT !.builder.b =
                  IF Len(@) = 0 THEN @ ELSE ObjectBuilderDone(gen.builder)]
    /\ UNCHANGED <<arrVars, stored, aliasVars, obj, firstSet, lastOp, src, policy, encoded, input>>

BuildArrayDone ==
    /\ gen.kind = "array"
    /\ result = NoResult
    /\ result' = Ok(0, ArrayBuilderDone(gen.builder))
    /\ gen' = [gen EXCEPT !.builder.b =
                  IF Len(@) = 0 THEN @ ELSE ArrayBuilderDone(gen.builder)]
    /\ UNCHANGED <<arrVars, stored, aliasVars, obj, firstSet, lastOp, src, policy, encoded, input>>

NextBuild ==
    \/ BuildObjectAddJSON \/ BuildObjectAddString \/ BuildObjectAddInt
    \/ BuildObjectAddInt64 \/ BuildObjectAddInt32 \/ BuildObjectAddBool
    \/ BuildObjectAddNull \/ BuildObjectDone
    \/ BuildArrayAddJSON \/ BuildArrayAddString \/ BuildArrayAddInt
    \/ BuildArrayAddInt64 \/ BuildArrayAddInt32 \/ BuildArrayAddBool
    \/ BuildArrayAddNull \/ BuildArrayDone

SpecBuild == InitBuild /\ [][NextBuild]_vars

(***************************************************************************)
(* C26, C27                                                                *)
(***************************************************************************)
\* the members or elements the calls stand for, in call order
BuildItems ==
    [i \in 1..Len(gen.calls) |->
        IF gen.kind = "object"
        THEN encodeString(gen.calls[i].name, policy) \o <<Rune.colon>> \o gen.calls[i].text
        ELSE gen.calls[i].text]

\* opening bracket, the items with one comma between neighbours, closing
\* bracket
BuildExpected ==
    <<IF gen.kind = "object" THEN Rune.lbrace ELSE Rune.lbracket>>
    \o (IF gen.calls = <<>> THEN <<>> ELSE JoinWith(BuildItems, <<Rune.comma>>))
    \o <<IF gen.kind = "object" THEN Rune.rbrace ELSE Rune.rbracket>>

BuildCount ==
    IF gen.kind = "object" THEN gen.builder.memberCount ELSE gen.builder.elementCount

\* C26: after n >= 1 AddJSON calls Done() returns the opening bracket, the
\* raw values (for an object: encoded name, ':', value) in call order with
\* exactly one comma between neighbours, and the closing bracket; at every
\* point the buffer is empty exactly when the count is 0
C26_BuilderShape ==
    /\ Len(gen.builder.b) = 0 <=> BuildCount = 0
    /\ (/\ result.st = "ok"
        /\ gen.calls # <<>>
        /\ \A i \in 1..Len(gen.calls) : gen.calls[i].op = "AddJSON")
           => result.val = BuildExpected

\* C26 witness: AddJSON("[1,2]"), AddJSON(""), AddJSON("[1,2]") and Done on
\* an ArrayBuilder
C26_Witness ==
    /\ gen.kind = "array"
    /\ [i \in 1..Len(gen.calls) |-> gen.calls[i].op] = <<"AddJSON", "AddJSON", "AddJSON">>
    /\ [i \in 1..Len(gen.calls) |-> gen.calls[i].text] = <<<<91, 49, 44, 50, 93>>, <<>>, <<91, 49, 44, 50, 93>>>>
    /\ result = Ok(0, <<91, 91, 49, 44, 50, 93, 44, 44, 91, 49, 44, 50, 93, 93>>)

HasRepeatedName ==
    \E i, j \in 1..Len(gen.calls) : i < j /\ gen.calls[i].name = gen.calls[j].name

\* C27: every Add* call on an ObjectBuilder adds a member, also when the
\* name was added before: Done() returns one member per call, in call
\* order, repeated names included
C27_NoDeduplication ==
    gen.kind = "object" =>
        /\ gen.builder.memberCount = Len(gen.calls)
        /\ result.st = "ok" => result.val = BuildExpected

\* C27 witness: AddString("a", ..), AddNull("a"), AddInt("a", -1) and Done
C27_Witness ==
    /\ gen.kind = "object"
    /\ policy = MinimalStringCharacterEscapingBehavior
    /\ [i \in 1..Len(gen.calls) |-> gen.calls[i].op] = <<"AddString", "AddNull", "AddInt">>
    /\ \A i \in 1..Len(gen.calls) : gen.calls[i].name = <<97>>
    /\ gen.calls[3].text = <<45, 49>>
    /\ result.st = "ok"
    /\ result.val = BuildExpected
    /\ HasRepeatedName

(***************************************************************************)
(* C28                                                                     *)
(***************************************************************************)
\* how many times key is in the key-order list
TimesListed(object, key) == Cardinality({i \in 1..Len(object.keys) : object.keys[i] = key})

\* C28: after any sequence of Set* calls each key is in at most one of the
\* six kind maps, the key-order list holds every occupied key exactly once
\* and no other key, and Has(key) is true exactly for the keys in the list
C28_SlotConsistency ==
    /\ \A key \in Keys :
          /\ Cardinality(Slot(obj, key)) <= 1
          /\ TimesListed(obj, key) = IF Slot(obj, key) = {} THEN 0 ELSE 1
          /\ Has(obj, key) <=> InSeq(key, obj.keys)
    /\ \A i \in 1..Len(obj.keys) : obj.keys[i] \in Keys

\* C28 witness: both keys are occupied and the last call stored a value of
\* another kind under a key that was already there
C28_Witness ==
    /\ Len(obj.keys) = MaxKeys
    /\ lastOp.replaced = "other"
    /\ lastOp.key = obj.keys[1]
    /\ Slot(obj, lastOp.key) = {"nulls"}

(***************************************************************************)
(* SpecInt32: numbers are stored in one slot of a container with SetInt32, *)
(* AddInt32 or SetNumber, then GetInt32 reads the slot.  gen.impl is the   *)
(* container: the ObjectStruct made by NewObject, the ObjectStruct whose   *)
(* zero value is used, or the ArrayStruct; gen.last is the last store.     *)
(***************************************************************************)
Int32Impls == {"object", "readyObject", "array"}

Int32Key == <<97>>

Int32Values == {-2147483647 - 1, -1, 0, 7, 2147483647}

\* number texts a caller can store with SetNumber: 42, 2^31, -2^31 - 1,
\* 2^32 - 1, 2^32, 99999999999, 1.5, 1e2 and the empty text
Int32Texts ==
    [plain |-> <<52, 50>>,
     over |-> <<50, 49, 52, 55, 52, 56, 51, 54, 52, 56>>,
     under |-> <<45, 50, 49, 52, 55, 52, 56, 51, 54, 52, 57>>,
     umax |-> <<52, 50, 57, 52, 57, 54, 55, 50, 57, 53>>,
     upast |-> <<52, 50, 57, 52, 57, 54, 55, 50, 57, 54>>,
     long |-> <<57, 57, 57, 57, 57, 57, 57, 57, 57, 57, 57>>,
     frac |-> <<49, 46, 53>>,
     exp |-> <<49, 101, 50>>,
     empty |-> <<>>]

NoStore == [how |-> "none", class |-> "none", v |-> 0]

InitInt32 ==
    /\ IdleObject /\ IdleArray /\ IdleAlias /\ IdleEncode
    /\ gen \in [impl : Int32Impls, calls : {0}, last : {NoStore}]
    /\ input = <<>>
    /\ result = NoResult

\* a store returned: what it was and what the slot's text now denotes
Int32Stored(impl, how, class, v) ==
    /\ gen.impl = impl
    /\ result = NoResult
    /\ gen.calls < MaxInt32Calls
    /\ gen' = [gen EXCEPT !.calls = @ + 1,
                          !.last = [how |-> how, class |-> class, v |-> v]]
    /\ UNCHANGED <<arrOp, arrStored, stored, aliasVars, firstSet, lastOp, src, policy, encoded, input, result>>

Int32Class(name) == IF name = "plain" THEN "inside" ELSE "notInt32"

Int32SetInt32 ==
    \E v \in Int32Values :
        /\ obj' = SetInt32(obj, Int32Key, v)
        /\ arr' = arr
        /\ Int32Stored("object", "SetInt32", "inside", v)

Int32SetNumber ==
    \E name \in DOMAIN Int32Texts :
        /\ obj' = SetNumber(obj, Int32Key, Int32Texts[name])
        /\ arr' = arr
        /\ Int32Stored("object", "SetNumber", Int32Class(name), 42)

Int32GetInt32 ==
    /\ gen.impl = "object"
    /\ result = NoResult
    /\ gen.calls > 0
    /\ LET got == GetInt32(obj, Int32Key)
       IN result' = [st |-> "ok", err |-> got.err, pos |-> 0, val |-> got.value]
    /\ UNCHANGED <<arrVars, stored, aliasVars, obj, firstSet, lastOp, src, policy, encoded, gen, input>>

ReadyInt32SetInt32 ==
    \E v \in Int32Values :
        /\ obj' = ReadyObjectSetInt32(IF gen.calls = 0 THEN ObjectZero ELSE obj, Int32Key, v)
        /\ arr' = arr
        /\ Int32Stored("readyObject", "SetInt32", "inside", v)

ReadyInt32SetNumber ==
    \E name \in DOMAIN Int32Texts :
        /\ obj' = ReadyObjectSetNumber(IF gen.calls = 0 THEN ObjectZero ELSE obj,
                                       Int32Key, Int32Texts[name])
        /\ arr' = arr
        /\ Int32Stored("readyObject", "SetNumber", Int32Class(name), 42)

ReadyInt32GetInt32 ==
    /\ gen.impl = "readyObject"
    /\ result = NoResult
    /\ gen.calls > 0
    /\ LET got == ReadyObjectGetInt32(obj, Int32Key)
       IN result' = [st |-> "ok", err |-> got.err, pos |-> 0, val |-> got.value]
    /\ UNCHANGED <<arrVars, stored, aliasVars, obj, firstSet, lastOp, src, policy, encoded, gen, input>>

ArrInt32AddInt32 ==
    \E v \in Int32Values :
        /\ arr.length = 0
        /\ arr' = ArrayAddInt32(arr, v)
        /\ obj' = obj
        /\ Int32Stored("array", "AddInt32", "inside", v)

ArrInt32SetInt32 ==
    \E v \in Int32Values :
        /\ arr.length = 1
        /\ arr' = ArraySetInt32(arr, 0, v)
        /\ obj' = obj
        /\ Int32Stored("array", "SetInt32", "inside", v)

ArrInt32AddNumber ==
    \E name \in DOMAIN Int32Texts :
        /\ arr.length = 0
        /\ arr' = ArrayAddNumber(arr, Int32Texts[name])
        /\ obj' = obj
        /\ Int32Stored("array", "AddNumber", Int32Class(name), 42)

ArrInt32SetNumber ==
    \E name \in DOMAIN Int32Texts :
        /\ arr.length = 1
        /\ arr' = ArraySetNumber(arr, 0, Int32Texts[name])
        /\ obj' = obj
        /\ Int32Stored("array", "SetNumber", Int32Class(name), 42)

ArrInt32GetInt32 ==
    /\ gen.impl = "array"
    /\ result = NoResult
    /\ gen.calls > 0
    /\ LET got == ArrayGetInt32(arr, 0)
       IN result' = [st |-> "ok", err |-> got.err, pos |-> 0, val |-> got.value]
    /\ UNCHANGED <<arrVars, stored, aliasVars, obj, firstSet, lastOp, src, policy, encoded, gen, input>>

NextInt32 ==
    \/ Int32SetInt32 \/ Int32SetNumber \/ Int32GetInt32
    \/ ReadyInt32SetInt32 \/ ReadyInt32SetNumber \/ ReadyInt32GetInt32
    \/ ArrInt32AddInt32 \/ ArrInt32SetInt32 \/ ArrInt32AddNumber
    \/ ArrInt32SetNumber \/ ArrInt32GetInt32

SpecInt32 == InitInt32 /\ [][NextInt32]_vars

(***************************************************************************)
(* C29                                                                     *)
(***************************************************************************)
\* GetInt32 returned what the claim says for the slot's last store
Int32AsClaimed ==
    IF gen.last.class = "inside" THEN result.val = gen.last.v /\ result.err = ""
    ELSE result.err # ""

\* C29: SetInt32(slot, v) followed by GetInt32(slot) returns (v, nil) for
\* every int32 v, negative ones included; GetInt32 on a slot whose number
\* text is an integer outside [-2^31, 2^31 - 1] or is not a decimal integer
\* returns an error
C29_BoundedInt32 == result.st = "ok" => Int32AsClaimed

\* the same for the two containers whose GetInt32 calls strconv.ParseInt
C29_SignedParse ==
    (result.st = "ok" /\ gen.impl # "readyObject") => Int32AsClaimed

(***************************************************************************)
(* SpecSupp: encodeString applied, under a policy, to a string of code     *)
(* points beyond the Basic Multilingual Plane (and 'a'), then parseString  *)
(* applied to what it wrote.                                               *)
(***************************************************************************)
\* U+10000, U+10001, U+103FF, U+10400, U+1D11E, U+1F600, U+FFFFF, U+100000,
\* U+10FFFF and 'a'
SuppRunes == {65536, 65537, 66559, 66560, 119070, 128512, 1048575, 1048576, 1114111, 97}

InitSupp ==
    /\ IdleObject /\ IdleArray /\ IdleAlias /\ IdleParse
    /\ src = <<>> /\ encoded = <<>>
    /\ policy \in Behaviors

SuppAppendRune ==
    /\ encoded = <<>>
    /\ Len(src) < MaxSrcLen
    /\ \E r \in SuppRunes : src' = Append(src, r)
    /\ UNCHANGED <<arrVars, stored, aliasVars, obj, firstSet, lastOp, policy, encoded, gen, input, result>>

SuppEncode ==
    /\ encoded = <<>>
    /\ src # <<>>
    /\ encoded' = encodeString(src, policy)
    /\ UNCHANGED <<arrVars, stored, aliasVars, obj, firstSet, lastOp, src, policy, gen, input, result>>

SuppParse ==
    /\ encoded # <<>>
    /\ result = NoResult
    /\ result' = parseString(encoded, 0)
    /\ UNCHANGED <<arrVars, stored, aliasVars, obj, firstSet, lastOp, src, policy, encoded, gen, input>>

NextSupp == SuppAppendRune \/ SuppEncode \/ SuppParse

SpecSupp == InitSupp /\ [][NextSupp]_vars

(***************************************************************************)
(* C30                                                                     *)
(***************************************************************************)
\* the four runes of t from the i-th on are hex digits; their value
Hex4Value(t, i) ==
    IF i + 3 > Len(t) \/ \E k \in 0..3 : hexValue(t[i + k]) < 0 THEN -1
    ELSE 4096 * hexValue(t[i]) + 256 * hexValue(t[i + 1])
         + 16 * hexValue(t[i + 2]) + hexValue(t[i + 3])

\* the runes of t from the i-th on are \uXXXX; the value of XXXX
EscapeValue(t, i) ==
    IF i + 5 > Len(t) \/ t[i] # Rune.backslash \/ t[i + 1] # Rune.u THEN -1
    ELSE Hex4Value(t, i + 2)

\* t from the i-th rune on is exactly two \uXXXX escapes, the high and the
\* low UTF-16 surrogate of r
IsSurrogateEscapes(t, i, r) ==
    LET high == EscapeValue(t, i)
        low == EscapeValue(t, i + 6)
    IN /\ high >= 55296 /\ high <= 56319
       /\ low >= 56320 /\ low <= 57343
       /\ (high - 55296) * 1024 + (low - 56320) = r - 65536

\* t from the i-th rune on is what the claim allows for the runes of s from
\* the k-th on and the closing quote: twelve runes for a code point above
\* U+FFFF, the rune itself or one \uXXXX escape of it for another one
RECURSIVE SuppShape(_, _, _, _)
SuppShape(t, i, s, k) ==
    IF k > Len(s) THEN i = Len(t) /\ t[i] = Rune.quote
    ELSE IF s[k] > 65535
    THEN IsSurrogateEscapes(t, i, s[k]) /\ SuppShape(t, i + 12, s, k + 1)
    ELSE IF i <= Len(t) /\ t[i] = s[k] THEN SuppShape(t, i + 1, s, k + 1)
    ELSE EscapeValue(t, i) = s[k] /\ SuppShape(t, i + 6, s, k + 1)

\* C30: for every code point above U+FFFF encodeString writes exactly two
\* \uXXXX escapes, its UTF-16 high and low surrogate, and parseString
\* applied to what encodeString wrote returns the original code points
C30_SupplementaryRoundTrip ==
    /\ encoded # <<>> => encoded[1] = Rune.quote /\ SuppShape(encoded, 2, src, 1)
    /\ result # NoResult => result = Ok(Len(encoded), src)

\* C30 witness: U+1D11E was written as "\ud834\udd1e" and read back
C30_Witness ==
    /\ src = <<119070>>
    /\ encoded = <<34, 92, 117, 100, 56, 51, 52, 92, 117, 100, 100, 49, 101, 34>>
    /\ result = Ok(14, <<119070>>)

====
